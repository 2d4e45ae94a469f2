------------------------- MODULE LoopAnalyzerProofs -------------------------
(***************************************************************************)
(* What CollectBackEdges, PopulateLoops and BuildLoopTree do to the loops. *)
(* The calls of each recursion are levels (LevelsKeep): a level is right   *)
(* if the one below it is, for the states that leave it few enough blocks  *)
(* to mark.  The search for the blocks of a loop keeps that what it has    *)
(* marked is in the natural loop; when it ends, the predecessors of what   *)
(* it marked are marked, so nothing of the natural loop is missing.        *)
(***************************************************************************)
EXTENDS LoopAnalyzer, ControlFlowProofs

\* What appending to a list does to its members.
LEMMA AppendMembers ==
  ASSUME NEW S, NEW q \in Seq(S), NEW e \in S
  PROVE  /\ Append(q, e) \in Seq(S) /\ Append(q, e) # <<>> /\ Range(Append(q, e)) = Range(q) \cup {e}
         /\ IsInjective(q) /\ e \notin Range(q) => IsInjective(Append(q, e))
         /\ Last(Append(q, e)) = e
         /\ q # <<>> => Head(Append(q, e)) = Head(q)
         /\ q = <<>> => Head(Append(q, e)) = e
<1> DEFINE a == Append(q, e)
<1>1. PICK n \in Nat : n = Len(q)
  OBVIOUS
<1>2. DOMAIN q = 1 .. n /\ DOMAIN a = 1 .. n + 1 /\ a[n + 1] = e /\ (\A i \in 1 .. n : a[i] = q[i])
      /\ a \in Seq(S) /\ Len(a) = n + 1
  BY <1>1
<1>3. n + 1 \in 1 .. n + 1 /\ \A i \in 1 .. n + 1 : i = n + 1 \/ i \in 1 .. n
  BY <1>1
<1>4. \A i \in 1 .. n : i \in 1 .. n + 1 /\ i # n + 1
  BY <1>1
<1> HIDE DEF a
<1>5. Range(a) = Range(q) \cup {e}
  BY <1>2, <1>3, <1>4 DEF Range
<1>6. ASSUME IsInjective(q), e \notin Range(q) PROVE IsInjective(a)
  <2> SUFFICES ASSUME NEW i \in 1 .. n + 1, NEW j \in 1 .. n + 1, a[i] = a[j] PROVE i = j
    BY <1>2 DEF IsInjective
  <2>1. \A k \in 1 .. n : a[k] \in Range(q)
    BY <1>2 DEF Range
  <2> QED
    BY <1>2, <1>3, <1>6, <2>1 DEF IsInjective
<1>7. a # <<>> /\ Last(a) = e
  BY <1>1, <1>2 DEF Last
<1>8. q # <<>> => Head(a) = Head(q)
  <2> SUFFICES ASSUME q # <<>> PROVE Head(a) = Head(q)
    OBVIOUS
  <2>1. n # 0 /\ 1 \in 1 .. n
    BY <1>1, EmptySeq
  <2> QED
    BY <1>2, <2>1
<1>9. q = <<>> => Head(a) = e
  BY <1>1, <1>2
<1> QED
  BY <1>2, <1>5, <1>6, <1>7, <1>8, <1>9 DEF a

\* What is marked and what is not, by number.
LEMMA Unmarked ==
  ASSUME NEW X, NEW Y, X \subseteq Y
  PROVE  /\ Cardinality(Block \ Y) \in Nat /\ Cardinality(Block \ X) \in Nat
         /\ Cardinality(Block \ Y) <= Cardinality(Block \ X) /\ Cardinality(Block \ X) <= N
         /\ \A b \in Block \ X : Cardinality(Block \ (X \cup {b})) = Cardinality(Block \ X) - 1
<1>1. IsFiniteSet(Block) /\ Cardinality(Block) = N
  BY SizeAssumption, FS_Interval DEF Block
<1>2. IsFiniteSet(Block \ X) /\ IsFiniteSet(Block \ Y) /\ Block \ Y \subseteq Block \ X /\ Block \ X \subseteq Block
  BY <1>1, FS_Subset
<1>3. Cardinality(Block \ Y) \in Nat /\ Cardinality(Block \ X) \in Nat
  BY <1>2, FS_CardinalityType
<1>4. Cardinality(Block \ Y) <= Cardinality(Block \ X) /\ Cardinality(Block \ X) <= N
  BY <1>1, <1>2, FS_Subset
<1>5. ASSUME NEW b \in Block \ X PROVE Cardinality(Block \ (X \cup {b})) = Cardinality(Block \ X) - 1
  <2>1. Block \ (X \cup {b}) = (Block \ X) \ {b}
    OBVIOUS
  <2> QED
    BY <1>2, <2>1, FS_RemoveElement
<1> QED
  BY <1>3, <1>4, <1>5

-----------------------------------------------------------------------------
(***************************************************************************)
(* The post-order lists the reachable blocks, each once and after those    *)
(* that it dominates.                                                      *)
(***************************************************************************)
\* Marked blocks are reached through marked blocks.
Rooted(g, S) == S # {} => Root \in S /\ S \subseteq ReachFrom(g, S, Root)

\* What a listed block dominates is listed before it.
DominatedFirst(g, q) ==
  \A j \in DOMAIN q : \A b \in Reachable(g) :
    q[j] \in StrictDominators(g, b) => \E i \in DOMAIN q : i < j /\ q[i] = b

\* The states of the visit: only marked blocks are listed, and each of them once.
Listed(g) == {s \in VisitState : /\ IsInjective(s.out) /\ Range(s.out) \subseteq s.seen
                                 /\ Rooted(g, s.seen) /\ DominatedFirst(g, s.out)}

\* From s on the blocks that were marked were listed, and their successors marked.
ListedSince(g, s) ==
  {t \in Listed(g) : /\ s.seen \subseteq t.seen
                     /\ Range(t.out) = Range(s.out) \cup (t.seen \ s.seen)
                     /\ \A c \in t.seen \ s.seen : SuccSet(g, c) \subseteq t.seen}

\* A call of the visit is made for what marked blocks lead to.
Called(g, s, b) == Root \in s.seen \cup {b} /\ b \in ReachFrom(g, s.seen \cup {b}, Root)

\* What the call for b brings: b is marked, and listed last if it was not.
Brought(s, t, b) == b \in t.seen /\ (b \notin s.seen => t.out # <<>> /\ Last(t.out) = b)

\* A call f of the visit is right if at most n blocks are not marked yet.
VisitRight(g, f, n) ==
  \A s \in Listed(g) : \A b \in Block : Called(g, s, b) /\ Cardinality(Block \ s.seen) <= n =>
    f[s][b] \in ListedSince(g, s) /\ Brought(s, f[s][b], b)

\* What b dominates is marked between the beginning and the end of the call for b.
LEMMA DominatedMarked ==
  ASSUME NEW g \in Cfgs, NEW S \in SUBSET Block, Rooted(g, S), NEW b \in Block \ S,
         NEW T \in SUBSET Block, S \cup {b} \subseteq T, SuccSet(g, b) \subseteq T,
         \A c \in T \ (S \cup {b}) : SuccSet(g, c) \subseteq T,
         NEW c \in Reachable(g), b \in StrictDominators(g, c)
  PROVE  c \in T \ (S \cup {b})
<1> DEFINE D == {x \in Reachable(g) : b \in StrictDominators(g, x)}
           Y == {x \in Reachable(g) : x \in D => x \in T}
<1>1. Root \in Block /\ Reachable(g) \subseteq Block /\ Root \in Reachable(g)
  <2>1. Root \in Block
    BY SizeAssumption DEF Root, Block
  <2> QED
    BY <2>1, ReachSelf DEF Reachable, Reach
<1>2. ASSUME NEW x \in D PROVE x # b /\ x \notin S /\ x # Root
  <2>1. x # b /\ (b = Root \/ x \notin ReachFrom(g, Block \ {b}, Root))
    BY DEF StrictDominators, Dominates, Reach
  <2>2. CASE b = Root
    BY <2>1, <2>2 DEF Rooted
  <2>3. CASE b # Root
    <3>1. Root \in ReachFrom(g, Block \ {b}, Root)
      BY <1>1, ReachSelf
    <3>2. ReachFrom(g, S, Root) \subseteq ReachFrom(g, Block \ {b}, Root)
      <4>1. S \subseteq Block \ {b}
        OBVIOUS
      <4> QED
        BY <1>1, <3>1, <4>1, ReachTrans
    <3> QED
      BY <2>1, <2>3, <3>1, <3>2 DEF Rooted
  <2> QED
    BY <2>2, <2>3
<1>3. Root \in Y
  BY <1>1, <1>2
<1>4. ASSUME NEW x \in Y, NEW y \in SuccSet(g, x) \cap Block PROVE y \in Y
  <2>1. y \in Reachable(g) /\ x \in Block
    <3>1. x \in ReachFrom(g, Block, Root)
      BY DEF Reachable, Reach
    <3> QED
      BY <1>1, <3>1, ReachStep DEF Reachable, Reach
  <2>2. ASSUME y \in D PROVE y \in T
    <3>1. CASE x \in D
      <4>1. x \in T \ (S \cup {b})
        BY <1>2, <3>1
      <4> QED
        BY <4>1
    <3>2. CASE x = b
      BY <3>2
    <3>3. CASE x \notin D /\ x # b
      <4>1. b \in Reachable(g) /\ y # b /\ (b = Root \/ y \notin ReachFrom(g, Block \ {b}, Root))
        BY <2>2 DEF StrictDominators, Dominates, Reach
      <4>2. b # Root /\ x \in ReachFrom(g, Block \ {b}, Root)
        BY <3>3, <4>1 DEF StrictDominators, Dominates, Reach
      <4>3. y \in ReachFrom(g, Block \ {b}, Root)
        <5>1. y \in Block \ {b}
          BY <4>1
        <5> QED
          BY <1>1, <4>2, <5>1, ReachStep
      <4> QED
        BY <4>1, <4>2, <4>3
    <3> QED
      BY <3>1, <3>2, <3>3
  <2> QED
    BY <2>1, <2>2
<1>5. Reachable(g) \subseteq Y
  <2>1. Closed(g, Block, Root, Y)
    <3> HIDE DEF Y
    <3> QED
      BY <1>3, <1>4 DEF Closed
  <2>2. Y \in SUBSET Block
    BY <1>1
  <2> HIDE DEF Y
  <2> QED
    BY <2>1, <2>2, ReachOn DEF Reachable, Reach
<1>6. c \in D
  OBVIOUS
<1>7. c \in T
  BY <1>5, <1>6
<1> QED
  BY <1>2, <1>6, <1>7

\* The calls for the successors of a block mark them all, if they are right.
LEMMA SuccessorsVisited ==
  ASSUME NEW g \in Cfgs, NEW f, Visitor(f, VisitState, Block), NEW n \in Nat, VisitRight(g, f, n),
         NEW s \in Listed(g), Cardinality(Block \ s.seen) <= n, NEW b \in s.seen
  PROVE  LET r == EachOf(f, g[b], s) IN r \in ListedSince(g, s) /\ SuccSet(g, b) \subseteq r.seen
<1> DEFINE P == ListedSince(g, s)
           G == [c \in Block |-> {t \in VisitState : c \in t.seen}]
<1>1. b \in Block /\ Root \in Block
  BY SizeAssumption DEF Listed, VisitState, Root, Block
<1>2. PICK q : q = g[b]
  OBVIOUS
<1>3. q \in Seq(Block) /\ Range(q) = SuccSet(g, b) /\ Range(q) \subseteq Block
  BY <1>1, <1>2, SuccSeq
<1>4. s \in P
  BY DEF ListedSince
<1>5. P \in SUBSET VisitState
  BY DEF ListedSince, Listed
<1>6. ASSUME NEW t \in P, NEW c \in Range(q)
      PROVE  f[t][c] \in P /\ t.seen \subseteq f[t][c].seen /\ c \in f[t][c].seen
  <2>1. t \in Listed(g) /\ s.seen \subseteq t.seen /\ Range(t.out) = Range(s.out) \cup (t.seen \ s.seen)
        /\ \A d \in t.seen \ s.seen : SuccSet(g, d) \subseteq t.seen
    BY DEF ListedSince
  <2>2. Called(g, t, c)
    <3>1. b \in ReachFrom(g, t.seen, Root)
      BY <2>1 DEF Listed, Rooted
    <3>2. ReachFrom(g, t.seen, Root) \subseteq ReachFrom(g, t.seen \cup {c}, Root)
      <4>1. Root \in ReachFrom(g, t.seen \cup {c}, Root) /\ t.seen \subseteq t.seen \cup {c}
        BY <1>1, ReachSelf
      <4> QED
        BY <1>1, <4>1, ReachTrans
    <3>3. c \in SuccSet(g, b) /\ c \in t.seen \cup {c} /\ c \in Block
      BY <1>3
    <3>4. b \in ReachFrom(g, t.seen \cup {c}, Root)
      BY <3>1, <3>2
    <3>5. c \in ReachFrom(g, t.seen \cup {c}, Root)
      BY <1>1, <3>3, <3>4, ReachStep
    <3>6. Root \in t.seen
      BY <2>1 DEF Listed, Rooted
    <3> QED
      BY <3>5, <3>6 DEF Called
  <2>3. Cardinality(Block \ t.seen) <= n
    <3>1. /\ Cardinality(Block \ t.seen) \in Nat /\ Cardinality(Block \ s.seen) \in Nat
          /\ Cardinality(Block \ t.seen) <= Cardinality(Block \ s.seen)
      BY <2>1, Unmarked
    <3> QED
      BY <3>1
  <2>4. PICK u : u = f[t][c]
    OBVIOUS
  <2>5. u \in ListedSince(g, t) /\ c \in u.seen
    BY <1>3, <2>1, <2>2, <2>3, <2>4 DEF VisitRight, Brought
  <2>6. u \in Listed(g) /\ t.seen \subseteq u.seen /\ Range(u.out) = Range(t.out) \cup (u.seen \ t.seen)
        /\ \A d \in u.seen \ t.seen : SuccSet(g, d) \subseteq u.seen
    BY <2>5 DEF ListedSince
  <2>7. \A d \in u.seen \ s.seen : SuccSet(g, d) \subseteq u.seen
    BY <2>1, <2>6
  <2>8. Range(u.out) = Range(s.out) \cup (u.seen \ s.seen)
    BY <2>1, <2>6
  <2>9. u \in P
    BY <2>1, <2>6, <2>7, <2>8 DEF ListedSince
  <2> QED
    BY <2>4, <2>5, <2>6, <2>9
<1>7. PICK r : r = EachOf(f, q, s)
  OBVIOUS
<1> HIDE DEF P
<1>8. r \in P
  BY <1>3, <1>4, <1>5, <1>6, <1>7, EachOfKeeps
<1>9. \A c \in Range(q) : r \in G[c]
  <2>1. \A t \in P : \A c \in Range(q) : f[t][c] \in P
    BY <1>6
  <2>2. \A t \in P : \A c \in Range(q) : f[t][c] \in G[c]
    BY <1>3, <1>5, <1>6
  <2>3. \A t \in P : \A c, d \in Range(q) : t \in G[d] => f[t][c] \in G[d]
    BY <1>3, <1>5, <1>6
  <2> HIDE DEF G
  <2> QED
    BY <1>3, <1>4, <1>5, <1>7, <2>1, <2>2, <2>3, EachOfBrings
<1>10. SuccSet(g, b) \subseteq r.seen
  BY <1>3, <1>9
<1> QED
  BY <1>2, <1>7, <1>8, <1>10 DEF P

\* One call of the visit, if the calls it makes are right.
LEMMA VisitBlockRight ==
  ASSUME NEW g \in Cfgs, NEW f, Visitor(f, VisitState, Block), NEW n \in Nat, VisitRight(g, f, n),
         NEW s \in Listed(g), NEW b \in Block, Called(g, s, b), Cardinality(Block \ s.seen) <= n + 1
  PROVE  LET t == VisitBlock(g, f, s, b) IN t \in ListedSince(g, s) /\ Brought(s, t, b)
<1>1. s \in VisitState
  BY DEF Listed
<1>2. CASE b \in s.seen
  <2>1. VisitBlock(g, f, s, b) = s
    BY <1>2 DEF VisitBlock
  <2>2. s \in ListedSince(g, s) /\ Brought(s, s, b)
    BY <1>2 DEF ListedSince, Brought, Listed
  <2> QED
    BY <2>1, <2>2
<1>3. CASE b \notin s.seen
  <2>1. PICK first : first = [s EXCEPT !.seen = @ \cup {b}]
    OBVIOUS
  <2>2. first \in VisitState /\ first.seen = s.seen \cup {b} /\ first.out = s.out
    BY <1>1, <2>1 DEF VisitState
  <2>3. Rooted(g, first.seen)
    <3>1. b \in ReachFrom(g, first.seen, Root) /\ Root \in first.seen /\ Root \in Block
      BY <2>2, SizeAssumption DEF Called, Root, Block
    <3>2. ReachFrom(g, s.seen, Root) \subseteq ReachFrom(g, first.seen, Root)
      <4>1. Root \in ReachFrom(g, first.seen, Root) /\ s.seen \subseteq first.seen
        BY <2>2, <3>1, ReachSelf
      <4> QED
        BY <3>1, <4>1, ReachTrans
    <3> QED
      BY <2>2, <3>1, <3>2 DEF Listed, Rooted
  <2>4. first \in Listed(g)
    BY <2>2, <2>3 DEF Listed
  <2>5. Cardinality(Block \ first.seen) <= n
    <3>1. Cardinality(Block \ s.seen) \in Nat /\ b \in Block \ s.seen
      BY <1>3, Unmarked
    <3>2. Cardinality(Block \ first.seen) = Cardinality(Block \ s.seen) - 1
      BY <2>2, <3>1, Unmarked
    <3> QED
      BY <3>1, <3>2
  <2>6. PICK r : r = EachOf(f, g[b], first)
    OBVIOUS
  <2>7. r \in ListedSince(g, first) /\ SuccSet(g, b) \subseteq r.seen
    <3>1. b \in first.seen
      BY <2>2
    <3> QED
      BY <2>4, <2>5, <2>6, <3>1, SuccessorsVisited
  <2>8. /\ r \in VisitState /\ IsInjective(r.out) /\ Range(r.out) \subseteq r.seen /\ Rooted(g, r.seen)
        /\ DominatedFirst(g, r.out) /\ first.seen \subseteq r.seen
        /\ Range(r.out) = Range(s.out) \cup (r.seen \ first.seen)
        /\ \A c \in r.seen \ first.seen : SuccSet(g, c) \subseteq r.seen
    BY <2>2, <2>7 DEF ListedSince, Listed
  <2>9. b \notin Range(r.out) /\ r.out \in Seq(Block) /\ b \in r.seen /\ r.seen \in SUBSET Block
    BY <1>3, <2>2, <2>8 DEF Listed, VisitState
  <2>10. PICK o : o = Append(r.out, b)
    OBVIOUS
  <2>11. o \in Seq(Block) /\ Range(o) = Range(r.out) \cup {b} /\ IsInjective(o) /\ o # <<>> /\ Last(o) = b
    BY <2>8, <2>9, <2>10, AppendMembers
  <2>12. DominatedFirst(g, o)
    <3>1. PICK k \in Nat : k = Len(r.out)
      BY <2>9
    <3>2. DOMAIN o = 1 .. k + 1 /\ DOMAIN r.out = 1 .. k /\ o[k + 1] = b /\ \A i \in 1 .. k : o[i] = r.out[i]
      BY <2>9, <2>10, <3>1
    <3>3. SUFFICES ASSUME NEW j \in 1 .. k + 1, NEW c \in Reachable(g), o[j] \in StrictDominators(g, c)
                   PROVE  \E i \in 1 .. k + 1 : i < j /\ o[i] = c
      BY <3>2 DEF DominatedFirst
    <3>4. \A i \in 1 .. k : i \in 1 .. k + 1 /\ i < k + 1
      BY <3>1
    <3>5. CASE j = k + 1
      <4>1. b \in StrictDominators(g, c) /\ b \in Block \ s.seen /\ s.seen \cup {b} \subseteq r.seen
            /\ \A d \in r.seen \ (s.seen \cup {b}) : SuccSet(g, d) \subseteq r.seen
        BY <1>3, <2>2, <2>8, <3>2, <3>3, <3>5
      <4>2. s.seen \in SUBSET Block /\ Rooted(g, s.seen)
        BY <1>1 DEF VisitState, Listed
      <4>3. c \in r.seen \ (s.seen \cup {b})
        BY <2>7, <2>9, <4>1, <4>2, DominatedMarked
      <4>4. c \in Range(r.out)
        BY <2>2, <2>8, <4>3
      <4>5. PICK i \in 1 .. k : r.out[i] = c
        BY <3>2, <4>4 DEF Range
      <4> QED
        BY <3>2, <3>4, <3>5, <4>5
    <3>6. CASE j # k + 1
      <4>1. j \in 1 .. k
        BY <3>1, <3>6
      <4>2. PICK i \in 1 .. k : i < j /\ r.out[i] = c
        BY <2>8, <3>2, <3>3, <4>1 DEF DominatedFirst
      <4> QED
        BY <3>2, <3>4, <4>2
    <3> QED
      BY <3>5, <3>6
  <2>13. PICK t : t = [r EXCEPT !.out = o]
    OBVIOUS
  <2>14. t \in VisitState /\ t.out = o /\ t.seen = r.seen
    BY <2>8, <2>11, <2>13 DEF VisitState
  <2>15. t = VisitBlock(g, f, s, b)
    BY <1>3, <2>1, <2>6, <2>10, <2>13 DEF VisitBlock
  <2>16. t \in Listed(g)
    BY <2>8, <2>9, <2>11, <2>12, <2>14 DEF Listed
  <2>17. Range(t.out) = Range(s.out) \cup (t.seen \ s.seen)
    BY <1>3, <2>2, <2>8, <2>9, <2>11, <2>14
  <2>18. \A c \in t.seen \ s.seen : SuccSet(g, c) \subseteq t.seen
    BY <2>2, <2>7, <2>8, <2>14
  <2>19. t \in ListedSince(g, s)
    BY <2>2, <2>8, <2>14, <2>16, <2>17, <2>18 DEF ListedSince
  <2>20. Brought(s, t, b)
    BY <2>9, <2>11, <2>14 DEF Brought
  <2> QED
    BY <2>15, <2>19, <2>20
<1> QED
  BY <1>2, <1>3

\* PostOrderVisitor is right for every number of blocks not marked.
LEMMA PostOrderVisitorRight ==
  ASSUME NEW g \in Cfgs
  PROVE  VisitRight(g, PostOrderVisitor(g), N)
<1>1. N \in Nat
  BY SizeAssumption
<1>2. PICK visit : VisitLevels(g, visit) /\ PostOrderVisitor(g) = visit[N]
  BY PostOrderLevels
<1> DEFINE P == [n \in 0 .. N |-> {f \in VisitCalls : VisitRight(g, f, n)}]
<1>3. visit[0] \in P[0]
  <2>1. visit[0] \in VisitCalls /\ 0 \in 0 .. N
    BY <1>1, <1>2 DEF VisitLevels
  <2>2. \A s \in VisitState : \A b \in Block : visit[0][s][b] = s
    BY <1>2 DEF VisitLevels
  <2>3. ASSUME NEW s \in Listed(g), Cardinality(Block \ s.seen) <= 0, NEW b \in Block
        PROVE  visit[0][s][b] \in ListedSince(g, s) /\ Brought(s, visit[0][s][b], b)
    <3>1. s \in VisitState /\ s \in ListedSince(g, s)
      BY DEF ListedSince, Listed
    <3>2. b \in s.seen
      <4> SUFFICES ASSUME b \in Block \ s.seen PROVE FALSE
        OBVIOUS
      <4>1. /\ Cardinality(Block \ (s.seen \cup {b})) \in Nat /\ Cardinality(Block \ s.seen) \in Nat
            /\ Cardinality(Block \ (s.seen \cup {b})) = Cardinality(Block \ s.seen) - 1
        BY Unmarked
      <4> QED
        BY <2>3, <4>1
    <3> QED
      BY <2>2, <3>1, <3>2 DEF Brought
  <2> QED
    BY <2>1, <2>3 DEF VisitRight
<1>4. ASSUME NEW n \in 1 .. N, visit[n - 1] \in P[n - 1] PROVE visit[n] \in P[n]
  <2>1. n \in 0 .. N /\ n - 1 \in 0 .. N /\ n - 1 \in Nat /\ (n - 1) + 1 = n
    BY <1>1
  <2>2. PICK f : f = visit[n - 1]
    OBVIOUS
  <2>3. f \in VisitCalls /\ VisitRight(g, f, n - 1)
    BY <1>4, <2>1, <2>2
  <2>4. visit[n] \in VisitCalls /\ \A s \in VisitState : \A b \in Block : visit[n][s][b] = VisitBlock(g, f, s, b)
    BY <1>2, <2>1, <2>2 DEF VisitLevels
  <2>5. Visitor(f, VisitState, Block)
    BY <2>3 DEF Visitor, VisitCalls
  <2>6. ASSUME NEW s \in Listed(g), NEW b \in Block, Called(g, s, b), Cardinality(Block \ s.seen) <= n
        PROVE  visit[n][s][b] \in ListedSince(g, s) /\ Brought(s, visit[n][s][b], b)
    <3>1. s \in VisitState
      BY DEF Listed
    <3>2. PICK k \in Nat : k = n - 1 /\ k + 1 = n
      BY <2>1
    <3>3. VisitRight(g, f, k) /\ Cardinality(Block \ s.seen) <= k + 1
      BY <2>3, <2>6, <3>2
    <3>4. PICK t : t = VisitBlock(g, f, s, b)
      OBVIOUS
    <3>5. t \in ListedSince(g, s) /\ Brought(s, t, b)
      BY <2>5, <2>6, <3>3, <3>4, VisitBlockRight
    <3> QED
      BY <2>4, <3>1, <3>4, <3>5
  <2>7. VisitRight(g, visit[n], n)
    BY <2>6 DEF VisitRight
  <2> QED
    BY <2>1, <2>4, <2>7
<1>5. VisitRight(g, visit[N], N)
  <2>1. visit[N] \in P[N] /\ N \in 0 .. N
    <3> HIDE DEF P
    <3> QED
      BY <1>1, <1>3, <1>4, LevelsKeep
  <2> QED
    BY <2>1
<1> QED
  BY <1>2, <1>5

\* What the post-order is.
LEMMA PostOrderFacts ==
  ASSUME NEW g \in Cfgs
  PROVE  /\ PostOrder(g) \in Seq(Block) /\ IsInjective(PostOrder(g))
         /\ Range(PostOrder(g)) = Reachable(g) /\ DominatedFirst(g, PostOrder(g))
         /\ PostOrder(g) # <<>> /\ Last(PostOrder(g)) = Root
<1>1. PICK s : s = [seen |-> {}, out |-> <<>>]
  OBVIOUS
<1>2. s \in Listed(g) /\ s.seen = {} /\ Range(s.out) = {}
  BY <1>1 DEF Listed, VisitState, IsInjective, Range, Rooted, DominatedFirst
<1>3. Root \in Block
  BY SizeAssumption DEF Root, Block
<1>4. Called(g, s, Root)
  BY <1>2, <1>3, ReachSelf DEF Called
<1>5. PICK t : t = PostOrderVisitor(g)[s][Root]
  OBVIOUS
<1>6. t \in ListedSince(g, s) /\ Brought(s, t, Root)
  <2>1. Cardinality(Block \ s.seen) <= N
    BY Unmarked
  <2> QED
    BY <1>2, <1>3, <1>4, <1>5, <2>1, PostOrderVisitorRight DEF VisitRight
<1>7. PostOrder(g) = t.out
  BY <1>1, <1>5 DEF PostOrder
<1>8. t \in Listed(g) /\ Range(t.out) = t.seen /\ \A c \in t.seen : SuccSet(g, c) \subseteq t.seen
  BY <1>2, <1>6 DEF ListedSince
<1>9. Root \in t.seen /\ t.out # <<>> /\ Last(t.out) = Root
  BY <1>2, <1>6 DEF Brought
<1>10. t.seen \in SUBSET Block
  BY <1>8 DEF Listed, VisitState
<1>11. Reachable(g) \subseteq t.seen
  <2>1. Closed(g, Block, Root, t.seen)
    BY <1>8, <1>9 DEF Closed
  <2> QED
    BY <1>10, <2>1, ReachOn DEF Reachable, Reach
<1>12. t.seen \subseteq Reachable(g)
  <2>1. ReachFrom(g, t.seen, Root) \subseteq ReachFrom(g, Block, Root)
    BY <1>3, <1>10, ReachSelf, ReachTrans
  <2> QED
    BY <1>8, <1>9, <2>1 DEF Listed, Rooted, Reachable, Reach
<1> QED
  BY <1>7, <1>8, <1>9, <1>11, <1>12 DEF Listed, VisitState

-----------------------------------------------------------------------------
(***************************************************************************)
(* The visit along the edges creates one loop for every back edge: the     *)
(* active calls lead from the entry to the block that is being left, so    *)
(* the blocks that dominate it are among them.                             *)
(***************************************************************************)
EdgeOf(l) == <<l.source, l.header>>
EndsOf(l) == {l.source, l.header}
Edges(ls) == {EdgeOf(ls[l]) : l \in DOMAIN ls}

IsBackEdge(l) == EdgeOf(l) \in BackEdges

Fresh(l) == IsBackEdge(l) /\ l.blocks = <<>> /\ l.inner = <<>> /\ l.outer = Null

\* No two loops for one edge.
Once(ls) == \A l, m \in DOMAIN ls : EdgeOf(ls[l]) = EdgeOf(ls[m]) => l = m

\* loop_ is set at the ends of back edges only, and names the loop of that edge
\* if no other back edge has an end there.
Named(ls, lp) ==
  /\ \A b \in Block : lp[b] # Null => lp[b] \in DOMAIN ls /\ b \in EndsOf(ls[lp[b]])
  /\ Structured => \A l \in DOMAIN ls : \A b \in EndsOf(ls[l]) : lp[b] = l

\* The states of the visit: the loops are those of back edges whose source is marked.
EdgesKept == {s \in EdgeState : /\ \A l \in DOMAIN s.loops : Fresh(s.loops[l]) /\ s.loops[l].source \in s.black
                                /\ Once(s.loops) /\ Named(s.loops, s.loop)
                                /\ s.gray \subseteq s.black}

\* From s on, the edges of E and those of the blocks marked since were followed.
Followed(s, E) ==
  {t \in EdgesKept : /\ t.gray = s.gray /\ s.black \subseteq t.black
                     /\ \A c \in t.black \ s.black : SuccSet(succ, c) \subseteq t.black
                     /\ Edges(t.loops) = Edges(s.loops)
                                          \cup (BackEdges \cap (E \cup ((t.black \ s.black) \X Block)))}

EdgeCalls == [Block \cup {Null} -> [EdgeState -> [Block -> EdgeState]]]

\* The active calls lead from the entry to b.
Entered(P, b) == Root \in P /\ b \in ReachFrom(succ, P, Root)

\* A call for an edge that was not followed is right if fewer than n blocks are not marked.
EdgeRight(e, n) ==
  \A s \in EdgesKept : \A prev \in s.gray : \A curr \in SuccSet(succ, prev) :
    Entered(s.gray, prev) /\ <<prev, curr>> \notin Edges(s.loops) /\ Cardinality(Block \ s.black) < n =>
      e[prev][s][curr] \in Followed(s, {<<prev, curr>>}) /\ curr \in e[prev][s][curr].black

LEMMA ReachableFacts == Root \in Reachable(succ) /\ Reachable(succ) \subseteq Block /\ Root \in Block
<1>1. Root \in Block
  BY SizeAssumption DEF Root, Block
<1> QED
  BY <1>1, ReachSelf DEF Reachable, Reach

\* What an edge from a reachable block leads to can be reached.
LEMMA ReachableStep ==
  ASSUME NEW g \in Cfgs, NEW a \in Reachable(g), NEW b \in SuccSet(g, a)
  PROVE  b \in Reachable(g) /\ a \in Block /\ b \in Block
<1>1. Root \in Block
  BY SizeAssumption DEF Root, Block
<1>2. a \in ReachFrom(g, Block, Root) /\ a \in Block
  BY <1>1, ReachSelf DEF Reachable, Reach
<1>3. b \in Block
  BY <1>2, SuccSeq
<1>4. b \in ReachFrom(g, Block, Root)
  BY <1>1, <1>2, <1>3, ReachStep
<1> QED
  BY <1>2, <1>3, <1>4 DEF Reachable, Reach

\* Back edges have a source and a header, and their natural loops hold both.
LEMMA BackEdgeFacts ==
  ASSUME succ \in Cfgs, NEW e \in BackEdges
  PROVE  /\ e = <<e[1], e[2]>> /\ IsBack(succ, e[1], e[2]) /\ e[1] # e[2]
         /\ {e[1], e[2]} \subseteq NaturalLoop(succ, e[1], e[2])
         /\ NaturalLoop(succ, e[1], e[2]) \subseteq Reachable(succ)
         /\ \A b \in NaturalLoop(succ, e[1], e[2]) : Dominates(succ, e[2], b)
<1>1. e = <<e[1], e[2]>> /\ IsBack(succ, e[1], e[2])
  BY DEF BackEdges, IsBack, CheckDominance
<1> QED
  BY <1>1, HeaderDominates

\* In a structured graph two back edges have no end in common, their loops are
\* nested or disjoint, and an end of one lies in the other's loop only if the
\* whole loop does.
LEMMA StructuredEdges ==
  ASSUME succ \in Cfgs, Structured, NEW e \in BackEdges, NEW f \in BackEdges, e # f
  PROVE  /\ {e[1], e[2]} \cap {f[1], f[2]} = {}
         /\ NaturalLoop(succ, e[1], e[2]) # NaturalLoop(succ, f[1], f[2])
         /\ \/ NaturalLoop(succ, e[1], e[2]) \cap NaturalLoop(succ, f[1], f[2]) = {}
            \/ NaturalLoop(succ, e[1], e[2]) \subseteq NaturalLoop(succ, f[1], f[2])
            \/ NaturalLoop(succ, f[1], f[2]) \subseteq NaturalLoop(succ, e[1], e[2])
         /\ \A b \in {e[1], e[2]} : b \in NaturalLoop(succ, f[1], f[2]) =>
              NaturalLoop(succ, e[1], e[2]) \subseteq NaturalLoop(succ, f[1], f[2])
<1> DEFINE R(x) == [source |-> x[1], header |-> x[2], body |-> NaturalLoop(succ, x[1], x[2])]
<1>1. \A x, y \in BackEdges : x # y =>
        x[2] # y[2] /\ (x[1] \in NaturalLoop(succ, y[1], y[2]) =>
                          NaturalLoop(succ, x[1], x[2]) \subseteq NaturalLoop(succ, y[1], y[2]))
  <2> SUFFICES ASSUME NEW x \in BackEdges, NEW y \in BackEdges, x # y
               PROVE  x[2] # y[2] /\ (x[1] \in NaturalLoop(succ, y[1], y[2]) =>
                        NaturalLoop(succ, x[1], x[2]) \subseteq NaturalLoop(succ, y[1], y[2]))
    OBVIOUS
  <2>1. R(x) \in NaturalLoops /\ R(y) \in NaturalLoops
    BY DEF NaturalLoops
  <2>2. R(x) # R(y)
    <3>1. x = <<x[1], x[2]>> /\ y = <<y[1], y[2]>>
      BY BackEdgeFacts
    <3>2. R(x).source = x[1] /\ R(x).header = x[2] /\ R(y).source = y[1] /\ R(y).header = y[2]
      OBVIOUS
    <3> QED
      BY <3>1, <3>2
  <2>3. R(x).header # R(y).header /\ (R(x).source \in R(y).body => R(x).body \subseteq R(y).body)
    BY <2>1, <2>2 DEF Structured
  <2> QED
    BY <2>3
<1> DEFINE A == NaturalLoop(succ, e[1], e[2])
           B == NaturalLoop(succ, f[1], f[2])
<1>2. /\ IsBack(succ, e[1], e[2]) /\ {e[1], e[2]} \subseteq A /\ A \subseteq Reachable(succ)
      /\ IsBack(succ, f[1], f[2]) /\ {f[1], f[2]} \subseteq B /\ B \subseteq Reachable(succ)
      /\ \A b \in A : Dominates(succ, e[2], b)
      /\ \A b \in B : Dominates(succ, f[2], b)
      /\ e[1] # e[2] /\ f[1] # f[2]
  BY BackEdgeFacts
<1>3. e[2] # f[2]
  BY <1>1
<1>4. ASSUME NEW b \in A \cap B
      PROVE  \/ Dominates(succ, e[2], f[2]) /\ B \subseteq A /\ e[2] \notin B
             \/ Dominates(succ, f[2], e[2]) /\ A \subseteq B /\ f[2] \notin A
  <2>1. e[2] \in Block /\ f[2] \in Block /\ b \in Reachable(succ)
    BY <1>2, ReachableFacts
  <2>2. Dominates(succ, e[2], f[2]) \/ Dominates(succ, f[2], e[2])
    BY <1>2, <2>1, DominatesChain
  <2>3. Dominates(succ, e[2], f[2]) => B \subseteq A /\ e[2] \notin B
    BY <1>2, <1>3, LoopsNest
  <2>4. Dominates(succ, f[2], e[2]) => A \subseteq B /\ f[2] \notin A
    BY <1>2, <1>3, LoopsNest
  <2> QED
    BY <2>2, <2>3, <2>4
<1>5. A # B
  BY <1>2, <1>4
<1>6. e[2] \in B => A \subseteq B
  BY <1>2, <1>4
<1>7. e[1] \in B => A \subseteq B
  BY <1>1
<1>8. f[1] \in A => B \subseteq A
  BY <1>1
<1>9. f[2] \in A => B \subseteq A
  BY <1>2, <1>4
<1>10. {e[1], e[2]} \cap {f[1], f[2]} = {}
  BY <1>2, <1>3, <1>5, <1>6, <1>7, <1>8, <1>9
<1> QED
  BY <1>4, <1>5, <1>6, <1>7, <1>10

\* A loop is created when the edge leads to a dominator.
LEMMA CloseLoopType ==
  ASSUME NEW s \in EdgeState, NEW curr \in Block, NEW prev \in Block \cup {Null}
  PROVE  CloseLoop(s, curr, prev) \in EdgeState
<1>1. NewLoop(prev, curr) \in Loop
  BY DEF NewLoop, Loop, Null
<1>2. PICK q : q = Append(s.loops, NewLoop(prev, curr))
  OBVIOUS
<1>3. q \in Seq(Loop) /\ Newest(s) \in Nat
  BY <1>1, <1>2 DEF EdgeState, Newest
<1>4. PICK lp : lp = [s.loop EXCEPT ![curr] = Newest(s), ![prev] = Newest(s)]
  OBVIOUS
<1>5. lp \in [Block -> Nat]
  <2>1. PICK f \in [Block -> Nat] : f = [s.loop EXCEPT ![curr] = Newest(s)]
    BY <1>3 DEF EdgeState
  <2>2. lp = [f EXCEPT ![prev] = Newest(s)]
    BY <1>4, <2>1
  <2> QED
    BY <1>3, <2>1, <2>2
<1>6. CASE CheckDominance(curr, prev)
  <2>1. CloseLoop(s, curr, prev) = [s EXCEPT !.loops = q, !.loop = lp]
    BY <1>2, <1>4, <1>6 DEF CloseLoop
  <2> QED
    BY <1>3, <1>5, <2>1 DEF EdgeState
<1>7. CASE ~CheckDominance(curr, prev)
  BY <1>7 DEF CloseLoop
<1> QED
  BY <1>6, <1>7

LEMMA CloseLoopKeeps ==
  ASSUME succ \in Cfgs, NEW s \in EdgesKept, NEW prev \in s.gray, prev \in Reachable(succ),
         NEW curr \in SuccSet(succ, prev), <<prev, curr>> \notin Edges(s.loops)
  PROVE  CloseLoop(s, curr, prev) \in Followed(s, {<<prev, curr>>})
<1>1. prev \in Block /\ curr \in Block /\ curr \in Reachable(succ) /\ s \in EdgeState
  BY ReachableStep DEF EdgesKept
<1>2. <<prev, curr>> \in BackEdges <=> CheckDominance(curr, prev)
  BY <1>1 DEF BackEdges
<1>3. CASE ~CheckDominance(curr, prev)
  <2>1. CloseLoop(s, curr, prev) = s
    BY <1>3 DEF CloseLoop
  <2> QED
    BY <1>2, <1>3, <2>1 DEF Followed
<1>4. CASE CheckDominance(curr, prev)
  <2>1. PICK n \in Nat : n = Len(s.loops)
    BY <1>1 DEF EdgeState
  <2>2. PICK new : new = NewLoop(prev, curr)
    OBVIOUS
  <2>3. /\ new \in Loop /\ new.source = prev /\ new.header = curr /\ new.blocks = <<>> /\ new.inner = <<>>
        /\ new.outer = Null
    BY <1>1, <2>2 DEF NewLoop, Loop, Null
  <2>4. PICK q : q = Append(s.loops, new)
    OBVIOUS
  <2>5. q \in Seq(Loop) /\ DOMAIN q = 1 .. n + 1 /\ q[n + 1] = new
        /\ DOMAIN s.loops = 1 .. n /\ \A i \in 1 .. n : q[i] = s.loops[i]
    <3>1. s.loops \in Seq(Loop)
      BY <1>1 DEF EdgeState
    <3> QED
      BY <2>1, <2>3, <2>4, <3>1
  <2>6. \A i \in 1 .. n + 1 : i = n + 1 \/ i \in 1 .. n
    BY <2>1
  <2>7. n + 1 \in 1 .. n + 1 /\ (\A i \in 1 .. n : i \in 1 .. n + 1 /\ i # n + 1) /\ n + 1 # 0
    BY <2>1
  <2>8. PICK lp : lp = [s.loop EXCEPT ![curr] = n + 1, ![prev] = n + 1]
    OBVIOUS
  <2>9. /\ lp \in [Block -> Nat] /\ lp[curr] = n + 1 /\ lp[prev] = n + 1
        /\ \A b \in Block : b \notin {curr, prev} => lp[b] = s.loop[b]
    <3>1. PICK f \in [Block -> Nat] : f = s.loop
      BY <1>1 DEF EdgeState
    <3>2. PICK f1 : f1 = [f EXCEPT ![curr] = n + 1]
      OBVIOUS
    <3>3. lp = [f1 EXCEPT ![prev] = n + 1] /\ n + 1 \in Nat
      BY <2>1, <2>8, <3>1, <3>2
    <3>4. f1 \in [Block -> Nat] /\ f1[curr] = n + 1 /\ \A b \in Block : b # curr => f1[b] = f[b]
      BY <1>1, <3>1, <3>2, <3>3
    <3>5. lp[prev] = n + 1 /\ \A b \in Block : b # prev => lp[b] = f1[b]
      BY <1>1, <3>2, <3>3
    <3> QED
      BY <1>1, <3>1, <3>2, <3>3, <3>4, <3>5
  <2>10. PICK r : r = [s EXCEPT !.loops = q, !.loop = lp]
    OBVIOUS
  <2>11. r = CloseLoop(s, curr, prev)
    BY <1>4, <2>1, <2>2, <2>4, <2>8, <2>10 DEF CloseLoop, Newest
  <2>12. r \in EdgeState /\ r.loops = q /\ r.loop = lp /\ r.black = s.black /\ r.gray = s.gray
    BY <1>1, <2>5, <2>9, <2>10 DEF EdgeState
  <2>13. Edges(q) = Edges(s.loops) \cup {<<prev, curr>>}
    BY <2>3, <2>5, <2>6, <2>7 DEF Edges, EdgeOf
  <2>14. ASSUME NEW i \in 1 .. n + 1 PROVE Fresh(q[i]) /\ q[i].source \in s.black
    <3>1. CASE i = n + 1
      BY <1>2, <1>4, <2>3, <2>5, <3>1 DEF Fresh, IsBackEdge, EdgeOf, EdgesKept
    <3>2. CASE i \in 1 .. n
      BY <2>5, <3>2 DEF EdgesKept
    <3> QED
      BY <2>6, <3>1, <3>2
  <2>15. \A i \in 1 .. n : EdgeOf(s.loops[i]) \in BackEdges /\ EdgeOf(s.loops[i]) # <<prev, curr>>
    BY <2>5 DEF EdgesKept, Fresh, IsBackEdge, Edges
  <2>16. EdgeOf(new) = <<prev, curr>> /\ EndsOf(new) = {prev, curr}
    BY <2>3 DEF EdgeOf, EndsOf
  <2>17. Once(q)
    <3>1. Once(s.loops)
      BY DEF EdgesKept
    <3>2. SUFFICES ASSUME NEW i \in 1 .. n + 1, NEW j \in 1 .. n + 1, EdgeOf(q[i]) = EdgeOf(q[j]) PROVE i = j
      BY <2>5 DEF Once
    <3>3. CASE i \in 1 .. n /\ j \in 1 .. n
      BY <2>5, <3>1, <3>2, <3>3 DEF Once
    <3>4. CASE i = n + 1 /\ j \in 1 .. n
      BY <2>5, <2>15, <2>16, <3>2, <3>4
    <3>5. CASE i \in 1 .. n /\ j = n + 1
      BY <2>5, <2>15, <2>16, <3>2, <3>5
    <3> QED
      BY <2>6, <3>3, <3>4, <3>5
  <2>18. Named(q, lp)
    <3>1. Named(s.loops, s.loop)
      BY DEF EdgesKept
    <3>2. ASSUME NEW b \in Block, lp[b] # Null PROVE lp[b] \in 1 .. n + 1 /\ b \in EndsOf(q[lp[b]])
      <4>1. CASE b \in {curr, prev}
        BY <2>5, <2>7, <2>9, <2>16, <4>1
      <4>2. CASE b \notin {curr, prev}
        <5>1. s.loop[b] = lp[b] /\ s.loop[b] \in 1 .. n /\ b \in EndsOf(s.loops[s.loop[b]])
          BY <2>5, <2>9, <3>1, <3>2, <4>2 DEF Named
        <5> QED
          BY <2>5, <2>7, <5>1
      <4> QED
        BY <4>1, <4>2
    <3>3. ASSUME Structured, NEW l \in 1 .. n + 1, NEW b \in EndsOf(q[l]) PROVE lp[b] = l
      <4>1. CASE l = n + 1
        BY <2>5, <2>9, <2>16, <3>3, <4>1
      <4>2. CASE l \in 1 .. n
        <5>1. s.loop[b] = l /\ b \in EndsOf(s.loops[l])
          BY <2>5, <3>1, <3>3, <4>2 DEF Named
        <5>2. PICK f : f = <<prev, curr>>
          OBVIOUS
        <5>3. PICK e : e = EdgeOf(s.loops[l])
          OBVIOUS
        <5>4. e \in BackEdges /\ f \in BackEdges /\ e # f
          BY <1>2, <1>4, <2>15, <4>2, <5>2, <5>3
        <5>5. {e[1], e[2]} \cap {f[1], f[2]} = {}
          BY <3>3, <5>4, StructuredEdges
        <5>6. EndsOf(s.loops[l]) = {e[1], e[2]} /\ {f[1], f[2]} = {prev, curr}
          BY <5>2, <5>3 DEF EndsOf, EdgeOf
        <5>7. b \in Block /\ b \notin {curr, prev}
          <6>1. e[1] \in Reachable(succ) /\ e[2] \in Reachable(succ)
            BY <5>4 DEF BackEdges
          <6> QED
            BY <5>1, <5>5, <5>6, <6>1, ReachableFacts
        <5> QED
          BY <2>9, <5>1, <5>7
      <4> QED
        BY <2>6, <4>1, <4>2
    <3> QED
      BY <2>5, <3>2, <3>3 DEF Named
  <2>19. r \in EdgesKept
    BY <2>5, <2>12, <2>14, <2>17, <2>18 DEF EdgesKept
  <2>20. Edges(r.loops) = Edges(s.loops) \cup (BackEdges \cap ({<<prev, curr>>} \cup ((r.black \ s.black) \X Block)))
    BY <1>2, <1>4, <2>12, <2>13
  <2>21. r \in Followed(s, {<<prev, curr>>})
    BY <2>12, <2>19, <2>20 DEF Followed
  <2> QED
    BY <2>11, <2>21
<1> QED
  BY <1>3, <1>4

\* What one call follows, and then another, both follow.
LEMMA FollowedBoth ==
  ASSUME NEW s \in EdgesKept, NEW D, NEW t \in Followed(s, D), NEW E, NEW u \in Followed(t, E)
  PROVE  u \in Followed(s, D \cup E)
<1>1. /\ u \in EdgesKept /\ u.gray = s.gray /\ s.black \subseteq t.black /\ t.black \subseteq u.black
      /\ \A c \in t.black \ s.black : SuccSet(succ, c) \subseteq t.black
      /\ \A c \in u.black \ t.black : SuccSet(succ, c) \subseteq u.black
      /\ Edges(t.loops) = Edges(s.loops) \cup (BackEdges \cap (D \cup ((t.black \ s.black) \X Block)))
      /\ Edges(u.loops) = Edges(t.loops) \cup (BackEdges \cap (E \cup ((u.black \ t.black) \X Block)))
  BY DEF Followed
<1>2. (u.black \ s.black) \X Block = ((t.black \ s.black) \X Block) \cup ((u.black \ t.black) \X Block)
  BY <1>1
<1>3. Edges(u.loops) = Edges(s.loops) \cup (BackEdges \cap ((D \cup E) \cup ((u.black \ s.black) \X Block)))
  BY <1>1, <1>2
<1>4. \A c \in u.black \ s.black : SuccSet(succ, c) \subseteq u.black
  BY <1>1
<1> QED
  BY <1>1, <1>3, <1>4 DEF Followed
\* A call for what curr leads to is right: the next edge of curr that was not followed.
LEMMA NextEdge ==
  ASSUME succ \in Cfgs, NEW e, NEW n \in Nat, EdgeRight(e, n), NEW s \in EdgesKept, NEW curr \in s.gray,
         Entered(s.gray, curr), Cardinality(Block \ s.black) < n,
         \A c \in Block : <<curr, c>> \notin Edges(s.loops),
         NEW D, NEW t \in Followed(s, D), D \subseteq {curr} \X Block,
         NEW c \in SuccSet(succ, curr), <<curr, c>> \notin D
  PROVE  e[curr][t][c] \in Followed(s, D \cup {<<curr, c>>}) /\ c \in e[curr][t][c].black
         /\ t.black \subseteq e[curr][t][c].black
<1>1. t \in EdgesKept /\ t.gray = s.gray /\ s.black \subseteq t.black /\ curr \in s.black
      /\ Edges(t.loops) = Edges(s.loops) \cup (BackEdges \cap (D \cup ((t.black \ s.black) \X Block)))
  BY DEF Followed, EdgesKept
<1>2. t.black \in SUBSET Block /\ s.black \in SUBSET Block /\ curr \in Block
  BY <1>1 DEF EdgesKept, EdgeState
<1>3. c \in Block
  BY <1>2, SuccSeq
<1>4. <<curr, c>> \notin Edges(t.loops)
  BY <1>1, <1>3
<1>5. Cardinality(Block \ t.black) < n
  <2>1. /\ Cardinality(Block \ t.black) \in Nat /\ Cardinality(Block \ s.black) \in Nat
        /\ Cardinality(Block \ t.black) <= Cardinality(Block \ s.black)
    BY <1>1, Unmarked
  <2> QED
    BY <2>1
<1>6. PICK u : u = e[curr][t][c]
  OBVIOUS
<1>7. u \in Followed(t, {<<curr, c>>}) /\ c \in u.black
  <2>1. curr \in t.gray /\ Entered(t.gray, curr)
    BY <1>1
  <2> QED
    BY <1>1, <1>4, <1>5, <1>6, <2>1 DEF EdgeRight
<1>8. u \in Followed(s, D \cup {<<curr, c>>})
  BY <1>7, FollowedBoth
<1>9. t.black \subseteq u.black
  BY <1>7 DEF Followed
<1> QED
  BY <1>6, <1>7, <1>8, <1>9

\* The calls for the successors of a block follow its edges, if they are right.
LEMMA EdgesOfBlock ==
  ASSUME succ \in Cfgs, NEW e \in EdgeCalls, NEW n \in Nat, EdgeRight(e, n),
         NEW s \in EdgesKept, NEW curr \in s.gray, curr \in Block,
         Entered(s.gray, curr), Cardinality(Block \ s.black) < n,
         \A c \in Block : <<curr, c>> \notin Edges(s.loops)
  PROVE  LET r == EachOf(e[curr], succ[curr], s)
         IN  /\ r \in Followed(s, {curr} \X SuccSet(succ, curr))
             /\ SuccSet(succ, curr) \subseteq r.black
<1>1. PICK f : f = e[curr]
  OBVIOUS
<1>2. Visitor(f, EdgeState, Block)
  BY <1>1 DEF EdgeCalls, Visitor
<1>3. PICK q : q = succ[curr]
  OBVIOUS
<1>4. q \in Seq(Block) /\ q \in SuccLists /\ SuccSet(succ, curr) = {q[k] : k \in DOMAIN q}
      /\ \A j, k \in DOMAIN q : q[j] = q[k] => j = k
  BY <1>3, SuccSeq DEF Cfgs, NoParallelEdges, SuccSet
<1>5. s \in EdgeState /\ s \in Followed(s, {})
  BY DEF Followed, EdgesKept
<1>6. PICK r : r = EachOf(f, q, s)
  OBVIOUS
<1>7. q # <<>> => r = EachOf(f, Tail(q), f[s][Head(q)])
  BY <1>2, <1>4, <1>5, <1>6, EachOfNext
<1>8. CASE q = <<>>
  <2>1. r = s
    BY <1>2, <1>5, <1>6, <1>8, EachOfNone
  <2>2. SuccSet(succ, curr) = {}
    BY <1>4, <1>8
  <2>3. {curr} \X SuccSet(succ, curr) = {}
    BY <2>2
  <2> QED
    BY <1>1, <1>3, <1>5, <1>6, <2>1, <2>2, <2>3
<1>9. ASSUME NEW a \in Block, q = <<a>> PROVE r \in Followed(s, {curr} \X SuccSet(succ, curr)) /\ SuccSet(succ, curr) \subseteq r.black
  <2>1. SuccSet(succ, curr) = {a} /\ q # <<>> /\ Head(q) = a /\ Tail(q) = <<>>
    BY <1>4, <1>9
  <2>2. PICK t : t = f[s][a]
    OBVIOUS
  <2>3. t \in Followed(s, {<<curr, a>>}) /\ a \in t.black
    <3>1. PICK D : D = {}
      OBVIOUS
    <3>2. a \in SuccSet(succ, curr) /\ <<curr, a>> \notin D /\ D \subseteq {curr} \X Block /\ s \in Followed(s, D)
      BY <1>5, <2>1, <3>1
    <3>3. t \in Followed(s, D \cup {<<curr, a>>}) /\ a \in t.black
      BY <1>1, <2>2, <3>2, NextEdge
    <3>4. D \cup {<<curr, a>>} = {<<curr, a>>}
      BY <3>1
    <3> QED
      BY <3>3, <3>4
  <2>4. t \in EdgeState
    BY <2>3 DEF Followed, EdgesKept
  <2>5. r = EachOf(f, <<>>, t)
    BY <1>7, <2>1, <2>2
  <2>6. r = t
    BY <1>2, <2>4, <2>5, EachOfNone
  <2>7. {<<curr, a>>} = {curr} \X {a}
    OBVIOUS
  <2> QED
    BY <2>1, <2>3, <2>6, <2>7
<1>10. ASSUME NEW a \in Block, NEW b \in Block, q = <<a, b>>
      PROVE  r \in Followed(s, {curr} \X SuccSet(succ, curr)) /\ SuccSet(succ, curr) \subseteq r.black
  <2>1. SuccSet(succ, curr) = {a, b} /\ q # <<>> /\ Head(q) = a /\ Tail(q) = <<b>> /\ a # b
    <3>1. DOMAIN q = {1, 2} /\ q[1] = a /\ q[2] = b
      BY <1>10
    <3>2. a # b
      BY <1>4, <3>1
    <3>3. SuccSet(succ, curr) = {a, b}
      BY <1>4, <3>1
    <3> QED
      BY <1>10, <3>2, <3>3
  <2>2. PICK t : t = f[s][a]
    OBVIOUS
  <2>3. t \in Followed(s, {<<curr, a>>}) /\ a \in t.black
    <3>1. PICK D : D = {}
      OBVIOUS
    <3>2. a \in SuccSet(succ, curr) /\ <<curr, a>> \notin D /\ D \subseteq {curr} \X Block /\ s \in Followed(s, D)
      BY <1>5, <2>1, <3>1
    <3>3. t \in Followed(s, D \cup {<<curr, a>>}) /\ a \in t.black
      BY <1>1, <2>2, <3>2, NextEdge
    <3>4. D \cup {<<curr, a>>} = {<<curr, a>>}
      BY <3>1
    <3> QED
      BY <3>3, <3>4
  <2>4. PICK D : D = {<<curr, a>>}
    OBVIOUS
  <2>5. t \in Followed(s, D) /\ t \in EdgeState
    BY <2>3, <2>4 DEF Followed, EdgesKept
  <2>6. PICK u : u = f[t][b]
    OBVIOUS
  <2>7. u \in Followed(s, D \cup {<<curr, b>>}) /\ b \in u.black /\ t.black \subseteq u.black
    <3>1. b \in SuccSet(succ, curr) /\ <<curr, b>> \notin D /\ D \subseteq {curr} \X Block
      BY <2>1, <2>4
    <3> QED
      BY <1>1, <2>5, <2>6, <3>1, NextEdge
  <2>8. u \in EdgeState
    BY <2>7 DEF Followed, EdgesKept
  <2>9. r = EachOf(f, <<b>>, t)
    BY <1>7, <2>1, <2>2
  <2>10. EachOf(f, <<b>>, t) = EachOf(f, <<>>, u)
    <3>1. PICK p : p = <<b>>
      OBVIOUS
    <3>2. p \in Seq(Block) /\ p # <<>>
      BY <3>1
    <3>3. EachOf(f, p, t) = EachOf(f, Tail(p), f[t][Head(p)])
      BY <1>2, <2>5, <3>2, EachOfNext
    <3>4. Head(p) = b /\ Tail(p) = <<>>
      BY <3>1
    <3> QED
      BY <2>6, <3>1, <3>3, <3>4
  <2>11. r = u
    BY <1>2, <2>8, <2>9, <2>10, EachOfNone
  <2>12. D \cup {<<curr, b>>} = {curr} \X {a, b}
    BY <2>4
  <2> QED
    BY <2>1, <2>3, <2>7, <2>11, <2>12
<1> QED
  BY <1>1, <1>3, <1>4, <1>6, <1>8, <1>9, <1>10 DEF SuccLists

\* The state in which the call for curr goes on to the successors.
Mark(s, curr) == [s EXCEPT !.black = @ \cup {curr}, !.gray = @ \cup {curr}]
Unmark(s, curr) == [s EXCEPT !.gray = @ \ {curr}]

\* The call for a block that was not marked.
LEMMA ExpandRight ==
  ASSUME succ \in Cfgs, NEW e \in EdgeCalls, NEW n \in Nat, EdgeRight(e, n), NEW s \in EdgesKept,
         NEW curr \in Block, curr \notin s.black, Entered(s.gray \cup {curr}, curr),
         Cardinality(Block \ s.black) <= n
  PROVE  LET r == Unmark(EachOf(e[curr], succ[curr], Mark(s, curr)), curr)
         IN  r \in Followed(s, {}) /\ curr \in r.black
<1>1. PICK first : first = Mark(s, curr)
  OBVIOUS
<1>2. s \in EdgeState /\ s.gray \subseteq s.black /\ curr \notin s.gray
  BY DEF EdgesKept
<1>3. first \in EdgeState /\ first.black = s.black \cup {curr} /\ first.gray = s.gray \cup {curr}
      /\ first.loops = s.loops /\ first.loop = s.loop
  BY <1>1, <1>2 DEF EdgeState, Mark
<1>4. first \in EdgesKept
  BY <1>2, <1>3 DEF EdgesKept
<1>5. Cardinality(Block \ first.black) < n
  <2>1. Cardinality(Block \ s.black) \in Nat /\ curr \in Block \ s.black
    BY Unmarked
  <2>2. Cardinality(Block \ first.black) = Cardinality(Block \ s.black) - 1
    BY <1>3, <2>1, Unmarked
  <2> QED
    BY <2>1, <2>2
<1>6. \A c \in Block : <<curr, c>> \notin Edges(first.loops)
  <2> SUFFICES ASSUME NEW l \in DOMAIN s.loops, NEW c \in Block, EdgeOf(s.loops[l]) = <<curr, c>> PROVE FALSE
    BY <1>3 DEF Edges
  <2>1. s.loops[l].source = curr
    BY DEF EdgeOf
  <2> QED
    BY <2>1 DEF EdgesKept
<1>7. PICK last : last = EachOf(e[curr], succ[curr], first)
  OBVIOUS
<1>8. last \in Followed(first, {curr} \X SuccSet(succ, curr)) /\ SuccSet(succ, curr) \subseteq last.black
  <2>1. curr \in first.gray /\ Entered(first.gray, curr)
    BY <1>3
  <2> QED
    BY <1>4, <1>5, <1>6, <1>7, <2>1, EdgesOfBlock
<1>9. /\ last \in EdgesKept /\ last.gray = s.gray \cup {curr} /\ s.black \cup {curr} \subseteq last.black
      /\ \A c \in last.black \ first.black : SuccSet(succ, c) \subseteq last.black
      /\ Edges(last.loops) = Edges(s.loops)
           \cup (BackEdges \cap (({curr} \X SuccSet(succ, curr)) \cup ((last.black \ first.black) \X Block)))
  BY <1>3, <1>8 DEF Followed
<1>10. PICK r : r = Unmark(last, curr)
  OBVIOUS
<1>11. r \in EdgeState /\ r.gray = s.gray /\ r.black = last.black /\ r.loops = last.loops /\ r.loop = last.loop
  BY <1>2, <1>9, <1>10 DEF EdgesKept, EdgeState, Unmark
<1>12. r \in EdgesKept
  BY <1>2, <1>9, <1>11 DEF EdgesKept
<1>13. \A c \in r.black \ s.black : SuccSet(succ, c) \subseteq r.black
  BY <1>3, <1>8, <1>9, <1>11
<1>14. Edges(r.loops) = Edges(s.loops) \cup (BackEdges \cap ({} \cup ((r.black \ s.black) \X Block)))
  <2>1. \A x \in BackEdges : x = <<x[1], x[2]>> /\ x[2] \in SuccSet(succ, x[1]) /\ x[2] \in Block
    <3>1. \A x \in BackEdges : x = <<x[1], x[2]>> /\ x[2] \in SuccSet(succ, x[1]) /\ x[2] \in Reachable(succ)
      BY DEF BackEdges
    <3> QED
      BY <3>1, ReachableFacts
  <2>2. r.black \ s.black = {curr} \cup (last.black \ first.black)
    BY <1>3, <1>9, <1>11
  <2>3. BackEdges \cap (({curr} \X SuccSet(succ, curr)) \cup ((last.black \ first.black) \X Block))
          = BackEdges \cap ((r.black \ s.black) \X Block)
    <3>1. ASSUME NEW x \in BackEdges
          PROVE  x \in ({curr} \X SuccSet(succ, curr)) \cup ((last.black \ first.black) \X Block)
                   <=> x \in (r.black \ s.black) \X Block
      <4>1. PICK a, b : x = <<a, b>> /\ b \in SuccSet(succ, a) /\ b \in Block
        BY <2>1
      <4> QED
        BY <2>2, <4>1
    <3> QED
      BY <3>1
  <2> QED
    BY <1>9, <1>11, <2>3
<1>15. r \in Followed(s, {}) /\ curr \in r.black
  BY <1>9, <1>11, <1>12, <1>13, <1>14 DEF Followed
<1> QED
  BY <1>1, <1>7, <1>10, <1>15
\* One call of ProccessEdge keeps the state of the visit a state of the visit.
LEMMA FollowType ==
  ASSUME succ \in Cfgs, NEW e \in EdgeCalls, NEW s \in EdgeState, NEW curr \in Block, NEW prev \in Block \cup {Null}
  PROVE  Follow(e, s, curr, prev) \in EdgeState
<1>1. CASE curr \in s.gray
  BY <1>1, CloseLoopType DEF Follow
<1>2. CASE curr \notin s.gray /\ curr \in s.black
  BY <1>2 DEF Follow
<1>3. CASE curr \notin s.gray /\ curr \notin s.black
  <2>1. PICK f : f = e[curr]
    OBVIOUS
  <2>2. Visitor(f, EdgeState, Block)
    BY <2>1 DEF EdgeCalls, Visitor
  <2>3. PICK q : q = succ[curr]
    OBVIOUS
  <2>4. q \in Seq(Block) /\ Range(q) \subseteq Block
    BY <2>3, SuccSeq
  <2>5. PICK last : last = EachOf(f, q, Mark(s, curr))
    OBVIOUS
  <2>6. last \in EdgeState
    <3>1. Mark(s, curr) \in EdgeState
      BY DEF EdgeState, Mark
    <3>2. \A t \in EdgeState : \A b \in Range(q) : f[t][b] \in EdgeState
      BY <2>2, <2>4 DEF Visitor
    <3> QED
      BY <2>2, <2>4, <2>5, <3>1, <3>2, EachOfKeeps
  <2>7. Unmark(last, curr) \in EdgeState
    BY <2>6 DEF EdgeState, Unmark
  <2>8. Follow(e, s, curr, prev) = Unmark(last, curr)
    BY <1>3, <2>1, <2>3, <2>5 DEF Follow, Mark, Unmark
  <2> QED
    BY <2>7, <2>8
<1> QED
  BY <1>1, <1>2, <1>3

\* What dominates a block is among the calls that lead to it.
LEMMA DominatorsActive ==
  ASSUME succ \in Cfgs, NEW P \in SUBSET Block, NEW b, Entered(P, b), NEW d \in StrictDominators(succ, b)
  PROVE  d \in P
<1>1. Root \in Block /\ d \in Block
  BY ReachableFacts DEF StrictDominators
<1>2. SUFFICES ASSUME d \notin P PROVE FALSE
  OBVIOUS
<1>3. d # Root /\ P \subseteq Block \ {d}
  BY <1>2 DEF Entered
<1>4. ReachFrom(succ, P, Root) \subseteq Reach(succ, Block \ {d})
  BY <1>1, <1>3, ReachSelf, ReachTrans DEF Reach
<1> QED
  BY <1>3, <1>4 DEF Entered, StrictDominators, Dominates

\* What is entered can be reached.
LEMMA EnteredReachable ==
  ASSUME succ \in Cfgs, NEW P \in SUBSET Block, NEW b, Entered(P, b)
  PROVE  b \in Reachable(succ)
BY ReachableFacts, ReachSelf, ReachTrans DEF Entered, Reachable, Reach

\* One call of ProccessEdge, if the calls it makes are right.
LEMMA FollowRight ==
  ASSUME succ \in Cfgs, NEW e \in EdgeCalls, NEW n \in Nat, EdgeRight(e, n), NEW s \in EdgesKept,
         NEW prev \in s.gray, NEW curr \in SuccSet(succ, prev), Entered(s.gray, prev),
         <<prev, curr>> \notin Edges(s.loops), Cardinality(Block \ s.black) <= n
  PROVE  LET t == Follow(e, s, curr, prev) IN t \in Followed(s, {<<prev, curr>>}) /\ curr \in t.black
<1>1. s \in EdgeState /\ s.gray \subseteq s.black /\ s.gray \in SUBSET Block
  BY DEF EdgesKept, EdgeState
<1>2. prev \in Reachable(succ)
  BY <1>1, EnteredReachable
<1>3. curr \in Block
  BY <1>2, ReachableStep
<1>4. curr \in s.gray \/ <<prev, curr>> \notin BackEdges
  BY <1>1, DominatorsActive DEF BackEdges, CheckDominance
<1>5. CASE curr \in s.gray
  <2>1. Follow(e, s, curr, prev) = CloseLoop(s, curr, prev)
    BY <1>5 DEF Follow
  <2>2. CloseLoop(s, curr, prev) \in Followed(s, {<<prev, curr>>})
    BY <1>2, CloseLoopKeeps
  <2> QED
    BY <1>1, <1>5, <2>1, <2>2 DEF Followed
<1>6. CASE curr \notin s.gray /\ curr \in s.black
  <2>1. Follow(e, s, curr, prev) = s
    BY <1>6 DEF Follow
  <2> QED
    BY <1>4, <1>6, <2>1 DEF Followed
<1>7. CASE curr \notin s.gray /\ curr \notin s.black
  <2>1. Entered(s.gray \cup {curr}, curr)
    <3>1. Root \in s.gray /\ prev \in ReachFrom(succ, s.gray, Root) /\ Root \in Block
      BY ReachableFacts DEF Entered
    <3>2. ReachFrom(succ, s.gray, Root) \subseteq ReachFrom(succ, s.gray \cup {curr}, Root)
      BY <3>1, ReachSelf, ReachTrans
    <3>3. curr \in ReachFrom(succ, s.gray \cup {curr}, Root)
      BY <1>3, <3>1, <3>2, ReachStep
    <3> QED
      BY <3>1, <3>3 DEF Entered
  <2>2. PICK r : r = Unmark(EachOf(e[curr], succ[curr], Mark(s, curr)), curr)
    OBVIOUS
  <2>3. r \in Followed(s, {}) /\ curr \in r.black
    BY <1>3, <1>7, <2>1, <2>2, ExpandRight
  <2>4. r \in Followed(s, {<<prev, curr>>})
    <3>1. BackEdges \cap ({} \cup ((r.black \ s.black) \X Block))
            = BackEdges \cap ({<<prev, curr>>} \cup ((r.black \ s.black) \X Block))
      BY <1>4, <1>7
    <3> QED
      BY <2>3, <3>1 DEF Followed
  <2>5. Follow(e, s, curr, prev) = r
    BY <1>7, <2>2 DEF Follow, Mark, Unmark
  <2> QED
    BY <2>3, <2>4, <2>5
<1> QED
  BY <1>5, <1>6, <1>7

\* ProccessEdge from the entry, when no block is marked.
LEMMA ProccessEdgeRight ==
  ASSUME succ \in Cfgs, NEW s \in EdgesKept, s.gray = {}, s.black = {}, s.loops = <<>>
  PROVE  LET r == ProccessEdge[Null][s][Root]
         IN  r \in EdgesKept /\ Edges(r.loops) = BackEdges
<1> DEFINE base == [prev \in Block \cup {Null} |-> [t \in EdgeState |-> [curr \in Block |-> t]]]
           D(v, n) == IF n = 0 THEN [prev \in Block \cup {Null} |-> [t \in EdgeState |-> [curr \in Block |-> t]]]
                      ELSE [prev \in Block \cup {Null} |-> [t \in EdgeState |-> [curr \in Block |->
                               Follow(v[n - 1], t, curr, prev)]]]
           step == [e \in EdgeCalls |-> [prev \in Block \cup {Null} |-> [t \in EdgeState |-> [curr \in Block |->
                               Follow(e, t, curr, prev)]]]]
           is(v) == v = [n \in 0 .. N + 1 |-> D(v, n)]
           edge == CHOOSE v : is(v)
<1>1. N \in Nat /\ N + 1 \in Nat
  BY SizeAssumption
<1>2. base \in EdgeCalls
  BY DEF EdgeCalls
<1>3. ASSUME NEW e \in EdgeCalls
      PROVE [prev \in Block \cup {Null} |-> [t \in EdgeState |-> [curr \in Block |-> Follow(e, t, curr, prev)]]] \in EdgeCalls
  <2>1. \A prev \in Block \cup {Null} : \A t \in EdgeState : \A curr \in Block : Follow(e, t, curr, prev) \in EdgeState
    BY FollowType
  <2> QED
    BY <2>1 DEF EdgeCalls
<1>4. step \in [EdgeCalls -> EdgeCalls]
  <2> HIDE DEF EdgeCalls
  <2> QED
    BY <1>3
<1>5. PICK v : Levels(N + 1, EdgeCalls, base, step, v)
  <2> HIDE DEF base, step
  <2> QED
    BY <1>1, <1>2, <1>4, LevelsExist
<1>6. is(v)
  <2>1. ASSUME NEW n \in 0 .. N + 1 PROVE v[n] = D(v, n)
    <3>1. CASE n = 0
      BY <1>5, <3>1 DEF Levels
    <3>2. CASE n # 0
      <4>1. n \in 1 .. N + 1 /\ n - 1 \in 0 .. N + 1
        BY <1>1, <3>2
      <4>2. v[n - 1] \in EdgeCalls /\ v[n] = step[v[n - 1]]
        BY <1>5, <4>1 DEF Levels
      <4> HIDE DEF EdgeCalls
      <4> QED
        BY <4>2, <3>2
    <3> QED
      BY <3>1, <3>2
  <2> HIDE DEF D
  <2> QED
    BY <1>5, <2>1 DEF Levels
<1>7. is(edge)
  <2> HIDE DEF is
  <2> QED
    BY <1>6
<1>8. ProccessEdge = edge[N + 1]
  BY DEF ProccessEdge
<1> HIDE DEF edge
<1> DEFINE P == [n \in 0 .. N + 1 |-> {e \in EdgeCalls : EdgeRight(e, n)}]
<1>9. edge[0] \in P[0]
  <2>1. edge[0] = base /\ 0 \in 0 .. N + 1
    BY <1>1, <1>7
  <2>2. EdgeRight(base, 0)
    <3>1. \A t \in EdgesKept : ~(Cardinality(Block \ t.black) < 0)
      <4> SUFFICES ASSUME NEW t \in EdgesKept PROVE ~(Cardinality(Block \ t.black) < 0)
        OBVIOUS
      <4>1. Cardinality(Block \ t.black) \in Nat
        BY Unmarked
      <4> QED
        BY <4>1
    <3> HIDE DEF base
    <3> QED
      BY <3>1 DEF EdgeRight
  <2> HIDE DEF base
  <2> QED
    BY <1>2, <2>1, <2>2
<1>10. ASSUME NEW n \in 1 .. N + 1, edge[n - 1] \in P[n - 1] PROVE edge[n] \in P[n]
  <2>1. n \in 0 .. N + 1 /\ n # 0 /\ n - 1 \in 0 .. N + 1
    BY <1>1
  <2>2. PICK e : e = edge[n - 1]
    OBVIOUS
  <2>3. PICK k \in Nat : k = n - 1 /\ \A c \in Nat : c < n => c <= k
    BY <2>1
  <2>4. e \in EdgeCalls /\ EdgeRight(e, k)
    BY <1>10, <2>1, <2>2, <2>3
  <2>5. edge[n] = [prev \in Block \cup {Null} |-> [t \in EdgeState |-> [curr \in Block |-> Follow(e, t, curr, prev)]]]
    <3>1. edge[n] = D(edge, n)
      <4> HIDE DEF D
      <4> QED
        BY <1>7, <2>1
    <3> QED
      BY <2>1, <2>2, <3>1
  <2>6. edge[n] \in EdgeCalls
    BY <1>3, <2>4, <2>5
  <2>7. ASSUME NEW t \in EdgesKept, NEW prev \in t.gray, NEW curr \in SuccSet(succ, prev), Entered(t.gray, prev),
               <<prev, curr>> \notin Edges(t.loops), Cardinality(Block \ t.black) < n
        PROVE  edge[n][prev][t][curr] \in Followed(t, {<<prev, curr>>}) /\ curr \in edge[n][prev][t][curr].black
    <3>1. t \in EdgeState /\ prev \in Block
      BY DEF EdgesKept, EdgeState
    <3>2. curr \in Block
      BY <3>1, SuccSeq
    <3>3. Cardinality(Block \ t.black) <= k
      <4>1. Cardinality(Block \ t.black) \in Nat
        BY Unmarked
      <4> QED
        BY <2>3, <2>7, <4>1
    <3>4. PICK r : r = Follow(e, t, curr, prev)
      OBVIOUS
    <3>5. r \in Followed(t, {<<prev, curr>>}) /\ curr \in r.black
      BY <2>4, <2>7, <3>3, <3>4, FollowRight
    <3>6. edge[n][prev][t][curr] = r
      BY <2>5, <3>1, <3>2, <3>4
    <3> QED
      BY <3>5, <3>6
  <2>8. EdgeRight(edge[n], n)
    BY <2>7 DEF EdgeRight
  <2> QED
    BY <2>1, <2>6, <2>8
<1>11. edge[N] \in EdgeCalls /\ EdgeRight(edge[N], N)
  <2>1. edge[N] \in P[N] /\ N \in 0 .. N + 1
    <3>1. \A n \in 1 .. N : n \in 1 .. N + 1
      BY <1>1
    <3> HIDE DEF P
    <3> QED
      BY <1>1, <1>9, <1>10, <3>1, LevelsKeep
  <2> QED
    BY <2>1
<1>12. PICK e : e = edge[N]
  OBVIOUS
<1>13. N + 1 \in 0 .. N + 1 /\ N + 1 # 0 /\ (N + 1) - 1 = N
  BY <1>1
<1>14. edge[N + 1] = [prev \in Block \cup {Null} |-> [t \in EdgeState |-> [curr \in Block |-> Follow(e, t, curr, prev)]]]
  <2>1. edge[N + 1] = D(edge, N + 1)
    <3> HIDE DEF D
    <3> QED
      BY <1>7, <1>13
  <2> QED
    BY <1>12, <1>13, <2>1
<1>15. s \in EdgeState /\ Root \in Block /\ Root \in Reachable(succ)
  BY ReachableFacts DEF EdgesKept
<1>16. ProccessEdge[Null][s][Root] = Follow(e, s, Root, Null)
  BY <1>8, <1>14, <1>15
<1>17. PICK r : r = Unmark(EachOf(e[Root], succ[Root], Mark(s, Root)), Root)
  OBVIOUS
<1>18. Follow(e, s, Root, Null) = r
  BY <1>17 DEF Follow, Mark, Unmark
<1>19. r \in Followed(s, {}) /\ Root \in r.black
  <2>1. Entered(s.gray \cup {Root}, Root)
    BY <1>15, ReachSelf DEF Entered
  <2>2. Cardinality(Block \ s.black) <= N
    BY Unmarked
  <2> QED
    BY <1>1, <1>11, <1>12, <1>15, <1>17, <2>1, <2>2, ExpandRight
<1>20. Reachable(succ) \subseteq r.black
  <2>1. \A c \in Reachable(succ) \cap r.black : \A d \in SuccSet(succ, c) : d \in r.black
    BY <1>19 DEF Followed
  <2> QED
    BY <1>19, <2>1, ReachableBy
<1>21. Edges(r.loops) = BackEdges
  <2>1. Edges(s.loops) = {}
    BY DEF Edges
  <2>2. \A x \in BackEdges : x \in r.black \X Block
    <3>1. \A x \in BackEdges : x \in Reachable(succ) \X Reachable(succ)
      BY DEF BackEdges
    <3> QED
      BY <1>20, <3>1, ReachableFacts
  <2>3. Edges(r.loops) = Edges(s.loops) \cup (BackEdges \cap ({} \cup ((r.black \ s.black) \X Block)))
    BY <1>19 DEF Followed
  <2>4. r.black \ s.black = r.black
    OBVIOUS
  <2> QED
    BY <2>1, <2>2, <2>3, <2>4
<1>22. r \in EdgesKept
  BY <1>19 DEF Followed
<1> QED
  BY <1>16, <1>18, <1>21, <1>22
-----------------------------------------------------------------------------
(***************************************************************************)
(* What the steps of the search do to the list of loops.                   *)
(***************************************************************************)
\* The inner loops of every loop are its own.
Owned(ls) == /\ \A l \in DOMAIN ls : IsInjective(ls[l].inner)
             /\ \A m \in DOMAIN ls : \A l \in Range(ls[m].inner) : l \in DOMAIN ls /\ ls[l].outer = m

\* The two lists hold the same loops, but the one may have other blocks in l.
SameLoops(q, p, l) ==
  /\ p \in Seq(Loop) /\ Len(p) = Len(q) /\ DOMAIN p = DOMAIN q
  /\ \A k \in DOMAIN q : p[k].source = q[k].source /\ p[k].header = q[k].header
                        /\ (k # l => p[k].blocks = q[k].blocks)

\* p is q with one more block in l.
Pushed(q, p, l, b) ==
  /\ SameLoops(q, p, l)
  /\ l \in DOMAIN q => p[l].blocks = Append(q[l].blocks, b)
  /\ Owned(q) => Owned(p)
  /\ \A k \in DOMAIN q : p[k].inner = q[k].inner /\ p[k].outer = q[k].outer

\* A block is put into loop l.
LEMMA PushFacts ==
  ASSUME NEW q \in Seq(Loop), NEW l \in Nat, NEW b \in Block
  PROVE  Pushed(q, [q EXCEPT ![l].blocks = Append(@, b)], l, b)
<1>1. PICK n \in Nat : n = Len(q)
  OBVIOUS
<1>2. DOMAIN q = 1 .. n /\ q \in [1 .. n -> Loop]
  BY <1>1
<1>3. PICK p : p = [q EXCEPT ![l].blocks = Append(@, b)]
  OBVIOUS
<1>4. CASE l \notin 1 .. n
  <2>1. p = q
    BY <1>2, <1>3, <1>4
  <2> QED
    BY <1>2, <1>3, <1>4, <2>1 DEF SameLoops, Pushed
<1>5. CASE l \in 1 .. n
  <2>1. PICK r \in Loop : r = q[l]
    BY <1>2, <1>5
  <2>2. PICK a : a = Append(r.blocks, b)
    OBVIOUS
  <2>3. a \in Seq(Block)
    BY <2>1, <2>2 DEF Loop
  <2>4. PICK u : u = [r EXCEPT !.blocks = a]
    OBVIOUS
  <2>5. u \in Loop /\ u.source = r.source /\ u.header = r.header /\ u.blocks = a /\ u.inner = r.inner
        /\ u.outer = r.outer
    BY <2>1, <2>3, <2>4 DEF Loop
  <2>6. p = [q EXCEPT ![l] = u]
    BY <1>3, <2>1, <2>2, <2>4
  <2>7. p \in [1 .. n -> Loop] /\ p[l] = u /\ \A k \in 1 .. n : k # l => p[k] = q[k]
    BY <1>2, <1>5, <2>5, <2>6
  <2>8. p \in Seq(Loop) /\ Len(p) = n /\ DOMAIN p = 1 .. n
    BY <2>7
  <2>9. \A k \in 1 .. n : /\ p[k].source = q[k].source /\ p[k].header = q[k].header
                          /\ (k # l => p[k].blocks = q[k].blocks)
                          /\ p[k].inner = q[k].inner /\ p[k].outer = q[k].outer
    <3> TAKE k \in 1 .. n
    <3>1. CASE k = l
      BY <2>1, <2>5, <2>7, <3>1
    <3>2. CASE k # l
      BY <2>7, <3>2
    <3> QED
      BY <3>1, <3>2
  <2>10. Owned(q) => Owned(p)
    BY <1>2, <2>8, <2>9 DEF Owned
  <2>11. SameLoops(q, p, l)
    BY <1>1, <1>2, <2>8, <2>9 DEF SameLoops
  <2>12. p[l].blocks = Append(q[l].blocks, b)
    BY <2>1, <2>2, <2>5, <2>7
  <2> QED
    BY <1>2, <1>3, <2>9, <2>10, <2>11, <2>12 DEF Pushed
<1> QED
  BY <1>4, <1>5

\* p is q with the loops of T under loop l.
Hung(q, p, l, T) ==
  \A k \in DOMAIN q : /\ p[k].outer = IF k \in T THEN l ELSE q[k].outer
                      /\ Range(p[k].inner) = IF k = l THEN Range(q[k].inner) \cup T ELSE Range(q[k].inner)

\* p is q with loop m under loop l.
Adopted(q, p, l, m) ==
  /\ SameLoops(q, p, Null) /\ Hung(q, p, l, {m})
  /\ l \in DOMAIN q => p[l].blocks = q[l].blocks
  /\ Owned(q) /\ l \in DOMAIN q /\ m \in DOMAIN q /\ q[m].outer = Null => Owned(p)

\* Loop m is hung under loop l.
LEMMA AdoptFacts ==
  ASSUME NEW q \in Seq(Loop), NEW l \in Nat, NEW m \in Nat
  PROVE  Adopted(q, [q EXCEPT ![l].inner = Append(@, m), ![m].outer = l], l, m)
<1>1. PICK n \in Nat : n = Len(q)
  OBVIOUS
<1>2. DOMAIN q = 1 .. n /\ q \in [1 .. n -> Loop]
  BY <1>1
<1> DEFINE T == [q EXCEPT ![l].inner = Append(@, m)]
<1>3. PICK t : t = T
  OBVIOUS
<1>4. /\ t \in [1 .. n -> Loop]
      /\ \A k \in 1 .. n : /\ t[k].source = q[k].source /\ t[k].header = q[k].header
                           /\ t[k].blocks = q[k].blocks /\ t[k].outer = q[k].outer
                           /\ (k # l => t[k].inner = q[k].inner)
      /\ l \in 1 .. n => t[l].inner = Append(q[l].inner, m)
  <2>1. CASE l \notin 1 .. n
    <3>1. t = q
      BY <1>2, <1>3, <2>1
    <3> QED
      BY <1>2, <2>1, <3>1
  <2>2. CASE l \in 1 .. n
    <3>1. PICK r \in Loop : r = q[l]
      BY <1>2, <2>2
    <3>2. PICK a : a = Append(r.inner, m)
      OBVIOUS
    <3>3. a \in Seq(Nat)
      BY <3>1, <3>2 DEF Loop
    <3>4. PICK u : u = [r EXCEPT !.inner = a]
      OBVIOUS
    <3>5. u \in Loop /\ u.source = r.source /\ u.header = r.header /\ u.blocks = r.blocks /\ u.inner = a
          /\ u.outer = r.outer
      BY <3>1, <3>3, <3>4 DEF Loop
    <3>6. t = [q EXCEPT ![l] = u]
      BY <1>3, <3>1, <3>2, <3>4
    <3>7. t \in [1 .. n -> Loop] /\ t[l] = u /\ \A k \in 1 .. n : k # l => t[k] = q[k]
      BY <1>2, <2>2, <3>5, <3>6
    <3>8. \A k \in 1 .. n : k = l \/ k # l
      OBVIOUS
    <3> QED
      BY <3>1, <3>2, <3>5, <3>7, <3>8
  <2> QED
    BY <2>1, <2>2
<1>5. PICK p : p = [t EXCEPT ![m].outer = l]
  OBVIOUS
<1>6. p = [q EXCEPT ![l].inner = Append(@, m), ![m].outer = l]
  BY <1>3, <1>5
<1>7. /\ p \in [1 .. n -> Loop]
      /\ \A k \in 1 .. n : /\ p[k].source = t[k].source /\ p[k].header = t[k].header
                           /\ p[k].blocks = t[k].blocks /\ p[k].inner = t[k].inner
                           /\ (k # m => p[k].outer = t[k].outer)
      /\ m \in 1 .. n => p[m].outer = l
  <2>1. CASE m \notin 1 .. n
    <3>1. p = t
      BY <1>4, <1>5, <2>1
    <3> QED
      BY <1>4, <2>1, <3>1
  <2>2. CASE m \in 1 .. n
    <3>1. PICK r \in Loop : r = t[m]
      BY <1>4, <2>2
    <3>2. PICK u : u = [r EXCEPT !.outer = l]
      OBVIOUS
    <3>3. u \in Loop /\ u.source = r.source /\ u.header = r.header /\ u.blocks = r.blocks /\ u.inner = r.inner
          /\ u.outer = l
      BY <3>1, <3>2 DEF Loop
    <3>4. p = [t EXCEPT ![m] = u]
      BY <1>5, <3>1, <3>2
    <3>5. p \in [1 .. n -> Loop] /\ p[m] = u /\ \A k \in 1 .. n : k # m => p[k] = t[k]
      BY <1>4, <2>2, <3>3, <3>4
    <3>6. \A k \in 1 .. n : k = m \/ k # m
      OBVIOUS
    <3> QED
      BY <3>1, <3>3, <3>5, <3>6
  <2> QED
    BY <2>1, <2>2
<1>8. p \in Seq(Loop) /\ Len(p) = n /\ DOMAIN p = 1 .. n
  BY <1>7
<1>9. SameLoops(q, p, Null) /\ (l \in DOMAIN q => p[l].blocks = q[l].blocks)
  BY <1>1, <1>2, <1>4, <1>7, <1>8 DEF SameLoops
<1>10. Hung(q, p, l, {m})
  <2> SUFFICES ASSUME NEW k \in 1 .. n
               PROVE  /\ p[k].outer = IF k = m THEN l ELSE q[k].outer
                      /\ Range(p[k].inner) = IF k = l THEN Range(q[k].inner) \cup {m} ELSE Range(q[k].inner)
    BY <1>2 DEF Hung
  <2>1. PICK i \in Seq(Nat) : i = q[k].inner
    <3>1. q[k] \in Loop
      BY <1>2
    <3> QED
      BY <3>1 DEF Loop
  <2>2. Range(Append(i, m)) = Range(i) \cup {m}
    BY AppendMembers
  <2>3. p[k].inner = t[k].inner /\ t[k].inner = IF k = l THEN Append(i, m) ELSE i
    BY <1>4, <1>7, <2>1
  <2> QED
    BY <1>4, <1>7, <2>1, <2>2, <2>3
<1>11. ASSUME Owned(q), l \in 1 .. n, m \in 1 .. n, q[m].outer = Null PROVE Owned(p)
  <2>1. \A k \in 1 .. n : m \notin Range(q[k].inner)
    BY <1>2, <1>11 DEF Owned, Null
  <2>2. PICK a : a = Append(q[l].inner, m)
    OBVIOUS
  <2>3. q[l].inner \in Seq(Nat)
    BY <1>2, <1>11 DEF Loop
  <2>4. Range(a) = Range(q[l].inner) \cup {m} /\ IsInjective(a)
    <3>1. PICK i \in Seq(Nat) : i = q[l].inner
      BY <2>3
    <3>2. IsInjective(i) /\ m \notin Range(i)
      BY <1>2, <1>11, <2>1, <3>1 DEF Owned
    <3>3. Range(Append(i, m)) = Range(i) \cup {m} /\ IsInjective(Append(i, m))
      BY <3>2, AppendMembers
    <3> QED
      BY <2>2, <3>1, <3>3
  <2>5. p[l].inner = a /\ \A k \in 1 .. n : k # l => p[k].inner = q[k].inner
    BY <1>4, <1>7, <1>11, <2>2
  <2>6. p[m].outer = l /\ \A k \in 1 .. n : k # m => p[k].outer = q[k].outer
    BY <1>4, <1>7, <1>11
  <2>7. ASSUME NEW k \in 1 .. n PROVE IsInjective(p[k].inner)
    <3>1. CASE k = l
      BY <2>4, <2>5, <3>1
    <3>2. CASE k # l
      BY <1>2, <1>11, <2>5, <3>2 DEF Owned
    <3> QED
      BY <3>1, <3>2
  <2>8. ASSUME NEW k \in 1 .. n, NEW j \in Range(p[k].inner) PROVE j \in 1 .. n /\ p[j].outer = k
    <3>1. CASE j = m
      <4>1. k = l
        BY <2>1, <2>5, <2>8, <3>1
      <4> QED
        BY <1>11, <2>6, <3>1, <4>1
    <3>2. CASE j # m
      <4>1. j \in Range(q[k].inner)
        <5>1. CASE k = l
          BY <2>4, <2>5, <2>8, <3>2, <5>1
        <5>2. CASE k # l
          BY <2>5, <2>8, <5>2
        <5> QED
          BY <5>1, <5>2
      <4>2. j \in 1 .. n /\ q[j].outer = k
        BY <1>2, <1>11, <4>1 DEF Owned
      <4> QED
        BY <2>6, <3>2, <4>2
    <3> QED
      BY <3>1, <3>2
  <2> QED
    BY <1>8, <2>7, <2>8 DEF Owned
<1> QED
  BY <1>2, <1>6, <1>9, <1>10, <1>11 DEF Adopted

-----------------------------------------------------------------------------
(***************************************************************************)
(* The search collects the natural loop.                                   *)
(***************************************************************************)
\* The blocks other than the header that reach the source without passing it.
Good(src, h) == {b \in Reachable(succ) \ {h} : src \in ReachFrom(succ, Block \ {h}, b)}

\* q holds the blocks marked so far but for the header, all of them in the loop.
Collected(q, black, src, h) ==
  /\ q # <<>> /\ Head(q) = src /\ IsInjective(q)
  /\ Range(q) \subseteq Good(src, h) /\ black = Range(q) \cup {h}

\* Loop l is the loop of the blocks marked by the search that had none.
LoopOfMarked(s, L, l) ==
  \A b \in Block : s.loop[b] = IF loop[b] = Null /\ b \in s.black \ {L[l].source, L[l].header} THEN l ELSE loop[b]

\* The loops without an outer loop that loop_ of a block of S names.
Taken(L, l, S) == {m \in DOMAIN L : L[m].outer = Null /\ \E b \in S \ EndsOf(L[l]) : loop[b] = m}

\* The states of the search for the blocks of loop l in the list L.
SearchKept(L, l) ==
  {s \in SearchState : /\ SameLoops(L, s.loops, l)
                       /\ \A b \in Block : s.loop[b] <= Len(L)
                       /\ Owned(s.loops)
                       /\ LoopOfMarked(s, L, l)
                       /\ Hung(L, s.loops, l, Taken(L, l, s.black))
                       /\ Collected(s.loops[l].blocks, s.black, L[l].source, L[l].header)}

PredSet(b) == {a \in Block : b \in SuccSet(succ, a)}

\* From s on the predecessors of what was marked were marked as well.
SearchedSince(L, l, s) ==
  {t \in SearchKept(L, l) : s.black \subseteq t.black /\ \A c \in t.black \ s.black : PredSet(c) \subseteq t.black}

InBody(L, l) == Good(L[l].source, L[l].header) \cup {L[l].header}

\* A call f of the search is right if at most n blocks are not marked yet.
SearchRight(f, L, l, n) ==
  \A s \in SearchKept(L, l) : Cardinality(Block \ s.black) <= n =>
    \A b \in InBody(L, l) : f[s][b] \in SearchedSince(L, l, s) /\ b \in f[s][b].black

\* The predecessors of a block of the loop that is not the header are in the loop.
LEMMA BodyPredecessors ==
  ASSUME succ \in Cfgs, NoDeadEdges(succ), NEW src, NEW h, NEW b \in Good(src, h), NEW c \in PredSet(b)
  PROVE  c \in Good(src, h) \cup {h}
<1>1. c \in Block /\ b \in SuccSet(succ, c) /\ b \in Reachable(succ) /\ b # h /\ b \in Block
  BY ReachableFacts DEF Good, PredSet
<1>2. c \in Reachable(succ)
  BY <1>1 DEF NoDeadEdges
<1>3. b \in ReachFrom(succ, Block \ {h}, c)
  <2>1. c \in ReachFrom(succ, Block \ {h}, c) /\ b \in Block \ {h}
    BY <1>1, ReachSelf
  <2> QED
    BY <1>1, <2>1, ReachStep
<1>4. src \in ReachFrom(succ, Block \ {h}, b)
  BY DEF Good
<1>5. ReachFrom(succ, Block \ {h}, b) \subseteq ReachFrom(succ, Block \ {h}, c)
  BY <1>1, <1>3, ReachTrans
<1> QED
  BY <1>2, <1>4, <1>5 DEF Good

\* Take keeps the state of the search a state of the search.
LEMMA TakeType ==
  ASSUME NEW s \in SearchState, NEW l \in Nat, NEW b \in Block
  PROVE  Take(s, l, b) \in SearchState /\ Take(s, l, b).black = s.black \cup {b}
<1>1. PICK q \in Seq(Loop) : q = s.loops
  BY DEF SearchState
<1>2. PICK m \in Nat : m = s.loop[b]
  BY DEF SearchState
<1>3. PICK p : p = [q EXCEPT ![l].blocks = Append(@, b)]
  OBVIOUS
<1>4. p \in Seq(Loop)
  BY <1>3, PushFacts DEF SameLoops, Pushed
<1>5. PICK v : v = [p EXCEPT ![l].inner = Append(@, m), ![m].outer = l]
  OBVIOUS
<1>6. v \in Seq(Loop)
  BY <1>4, <1>5, AdoptFacts DEF SameLoops, Adopted
<1>7. PICK f \in [Block -> Nat] : f = [s.loop EXCEPT ![b] = l]
  BY DEF SearchState
<1>8. Take(s, l, b) = [black |-> s.black \cup {b},
                       loops |-> IF Adopts(s, m) THEN v ELSE p,
                       loop  |-> IF m = Null THEN f ELSE s.loop]
  <2>1. Take(s, l, b) =
          [black |-> s.black \cup {b},
           loops |-> IF Adopts(s, s.loop[b])
                     THEN [[s.loops EXCEPT ![l].blocks = Append(@, b)]
                             EXCEPT ![l].inner = Append(@, s.loop[b]), ![s.loop[b]].outer = l]
                     ELSE [s.loops EXCEPT ![l].blocks = Append(@, b)],
           loop  |-> IF s.loop[b] = Null THEN [s.loop EXCEPT ![b] = l] ELSE s.loop]
    BY Zenon DEF Take
  <2>2. p = [s.loops EXCEPT ![l].blocks = Append(@, b)]
    BY <1>1, <1>3, Zenon
  <2>3. v = [[s.loops EXCEPT ![l].blocks = Append(@, b)]
               EXCEPT ![l].inner = Append(@, s.loop[b]), ![s.loop[b]].outer = l]
    BY <1>2, <1>5, <2>2, Zenon
  <2> QED
    BY <1>2, <1>7, <2>1, <2>2, <2>3, Zenon
<1>9. s.black \cup {b} \in SUBSET Block /\ s.loop \in [Block -> Nat]
  BY DEF SearchState
<1> QED
  BY <1>4, <1>6, <1>7, <1>8, <1>9 DEF SearchState

\* A block of the loop that is not marked is taken.
LEMMA TakeKeeps ==
  ASSUME NEW L \in Seq(Loop), NEW l \in DOMAIN L, NEW s \in SearchKept(L, l),
         NEW b \in InBody(L, l), b \notin s.black
  PROVE  Take(s, l, b) \in SearchKept(L, l) /\ Take(s, l, b).black = s.black \cup {b} /\ b \in Block
<1>1. l \in Nat /\ s \in SearchState
  BY DEF SearchKept
<1>2. b \in Good(L[l].source, L[l].header) /\ b \in Block /\ b # L[l].header
  BY ReachableFacts DEF InBody, Good, SearchKept, Collected
<1>3. PICK q \in Seq(Loop) : q = s.loops
  BY <1>1 DEF SearchState
<1>4. PICK m \in Nat : m = s.loop[b]
  BY <1>1, <1>2 DEF SearchState
<1>5. SameLoops(L, q, l) /\ Owned(q) /\ m <= Len(L) /\ l \in DOMAIN q
      /\ Collected(q[l].blocks, s.black, L[l].source, L[l].header)
  BY <1>2, <1>3, <1>4 DEF SearchKept, SameLoops
<1>6. PICK p : p = [q EXCEPT ![l].blocks = Append(@, b)]
  OBVIOUS
<1>7. SameLoops(q, p, l) /\ p[l].blocks = Append(q[l].blocks, b) /\ Owned(p) /\ p \in Seq(Loop)
      /\ \A k \in DOMAIN q : p[k].inner = q[k].inner /\ p[k].outer = q[k].outer
  <2>1. Pushed(q, p, l, b)
    BY <1>1, <1>2, <1>6, PushFacts
  <2> QED
    BY <1>5, <2>1 DEF SameLoops, Pushed
<1>8. PICK v : v = [p EXCEPT ![l].inner = Append(@, m), ![m].outer = l]
  OBVIOUS
<1>9. PICK f : f = [s.loop EXCEPT ![b] = l]
  OBVIOUS
<1>10. Take(s, l, b) = [black |-> s.black \cup {b},
                        loops |-> IF Adopts(s, m) THEN v ELSE p,
                        loop  |-> IF m = Null THEN f ELSE s.loop]
  <2>1. Take(s, l, b) =
          [black |-> s.black \cup {b},
           loops |-> IF Adopts(s, s.loop[b])
                     THEN [[s.loops EXCEPT ![l].blocks = Append(@, b)]
                             EXCEPT ![l].inner = Append(@, s.loop[b]), ![s.loop[b]].outer = l]
                     ELSE [s.loops EXCEPT ![l].blocks = Append(@, b)],
           loop  |-> IF s.loop[b] = Null THEN [s.loop EXCEPT ![b] = l] ELSE s.loop]
    BY Zenon DEF Take
  <2>2. p = [s.loops EXCEPT ![l].blocks = Append(@, b)]
    BY <1>3, <1>6, Zenon
  <2>3. v = [[s.loops EXCEPT ![l].blocks = Append(@, b)]
               EXCEPT ![l].inner = Append(@, s.loop[b]), ![s.loop[b]].outer = l]
    BY <1>4, <1>8, <2>2, Zenon
  <2> QED
    BY <1>4, <1>9, <2>1, <2>2, <2>3, Zenon
<1>11. Collected(p[l].blocks, s.black \cup {b}, L[l].source, L[l].header)
  <2>1. PICK o \in Seq(Block) : o = q[l].blocks
    <3>1. q[l] \in Loop
      BY <1>5
    <3> QED
      BY <3>1 DEF Loop
  <2>2. Append(o, b) # <<>> /\ Range(Append(o, b)) = Range(o) \cup {b}
        /\ (b \notin Range(o) /\ IsInjective(o) => IsInjective(Append(o, b)))
        /\ (o # <<>> => Head(Append(o, b)) = Head(o))
    BY <1>2, AppendMembers
  <2>3. Collected(o, s.black, L[l].source, L[l].header) /\ p[l].blocks = Append(o, b)
    BY <1>5, <1>7, <2>1
  <2>4. b \notin Range(o)
    BY <2>3 DEF Collected
  <2> QED
    BY <1>2, <2>2, <2>3, <2>4 DEF Collected
<1>12. SameLoops(L, p, l)
  BY <1>5, <1>7 DEF SameLoops
<1>13. PICK r : r = Take(s, l, b)
  OBVIOUS
<1>14. r \in SearchState /\ r.black = s.black \cup {b}
  BY <1>1, <1>2, <1>13, TakeType
<1>15. \A c \in Block : r.loop[c] <= Len(L)
  <2>1. \A c \in Block : f[c] = l \/ f[c] = s.loop[c]
    BY <1>1, <1>2, <1>9 DEF SearchState
  <2>2. l <= Len(L)
    OBVIOUS
  <2>3. r.loop = s.loop \/ r.loop = f
    BY <1>10, <1>13
  <2>4. \A c \in Block : s.loop[c] <= Len(L)
    BY DEF SearchKept
  <2> QED
    BY <2>1, <2>2, <2>3, <2>4
<1>16. m = loop[b] /\ EndsOf(L[l]) = {L[l].source, L[l].header} /\ b \notin EndsOf(L[l])
  <2>1. LoopOfMarked(s, L, l)
    BY DEF SearchKept
  <2>2. PICK o \in Seq(Block) : o = q[l].blocks
    <3>1. q[l] \in Loop
      BY <1>5
    <3> QED
      BY <3>1 DEF Loop
  <2>3. Collected(o, s.black, L[l].source, L[l].header)
    BY <1>5, <2>2
  <2>4. Head(o) = L[l].source /\ o # <<>> /\ s.black = Range(o) \cup {L[l].header}
    BY <2>3 DEF Collected
  <2>5. {L[l].source, L[l].header} \subseteq s.black
    BY <2>4, TailRange
  <2> QED
    BY <1>2, <1>4, <2>1, <2>5 DEF LoopOfMarked, EndsOf
<1>17. LoopOfMarked(r, L, l)
  <2>1. LoopOfMarked(s, L, l)
    BY DEF SearchKept
  <2>2. m = loop[b] /\ b \notin {L[l].source, L[l].header}
    BY <1>16
  <2>3. r.loop = IF m = Null THEN f ELSE s.loop
    BY <1>10, <1>13
  <2>4. ASSUME NEW c \in Block
        PROVE  r.loop[c] = IF loop[c] = Null /\ c \in r.black \ {L[l].source, L[l].header} THEN l ELSE loop[c]
    <3>1. s.loop[c] = IF loop[c] = Null /\ c \in s.black \ {L[l].source, L[l].header} THEN l ELSE loop[c]
      BY <2>1 DEF LoopOfMarked
    <3>2. CASE c = b
      <4>1. f[b] = l
        BY <1>1, <1>2, <1>9 DEF SearchState
      <4> QED
        BY <1>4, <1>14, <2>2, <2>3, <3>2, <4>1
    <3>3. CASE c # b
      <4>1. r.loop[c] = s.loop[c]
        BY <1>1, <1>2, <1>9, <2>3, <3>3 DEF SearchState
      <4> QED
        BY <1>14, <3>1, <3>3, <4>1
    <3> QED
      BY <3>2, <3>3
  <2> QED
    BY <2>4 DEF LoopOfMarked
<1> DEFINE T == Taken(L, l, s.black)
<1>18. Hung(L, q, l, T) /\ Hung(L, p, l, T)
  <2>1. Hung(L, q, l, T)
    BY <1>3 DEF SearchKept
  <2>2. \A k \in DOMAIN L : p[k].inner = q[k].inner /\ p[k].outer = q[k].outer
    BY <1>5, <1>7 DEF SameLoops
  <2> HIDE DEF T
  <2> QED
    BY <2>1, <2>2 DEF Hung
<1>19. Taken(L, l, r.black) = T \cup (IF m \in DOMAIN L /\ L[m].outer = Null THEN {m} ELSE {})
  BY <1>14, <1>16 DEF Taken
<1>20. l # Null /\ Null \notin DOMAIN L /\ (m # Null => m \in DOMAIN L)
  <2>1. DOMAIN L = 1 .. Len(L) /\ Len(L) \in Nat
    OBVIOUS
  <2> QED
    BY <1>5, <2>1 DEF Null
<1>21. CASE Adopts(s, m)
  <2>1. m \in DOMAIN p /\ l \in DOMAIN p /\ p[m].outer = Null
    <3>1. DOMAIN L = 1 .. Len(L) /\ Len(L) \in Nat /\ DOMAIN q = DOMAIN L /\ DOMAIN p = DOMAIN q
      BY <1>5, <1>7 DEF SameLoops
    <3>2. m # 0 /\ q[m].outer = Null
      BY <1>3, <1>21 DEF Adopts, Null
    <3>3. m \in DOMAIN q
      BY <1>5, <3>1, <3>2
    <3> QED
      BY <1>5, <1>7, <3>1, <3>2, <3>3
  <2>2. SameLoops(p, v, Null) /\ v[l].blocks = p[l].blocks /\ Owned(v) /\ Hung(p, v, l, {m})
    <3>1. Adopted(p, v, l, m)
      BY <1>1, <1>7, <1>8, AdoptFacts
    <3> QED
      BY <1>7, <2>1, <3>1 DEF Adopted
  <2>3. r.loops = v
    BY <1>10, <1>13, <1>21
  <2>4. SameLoops(L, v, l)
    <3>1. \A k \in DOMAIN p : k # Null
      BY <1>7 DEF Null
    <3> QED
      BY <1>12, <2>2, <3>1 DEF SameLoops
  <2>5. Collected(v[l].blocks, r.black, L[l].source, L[l].header)
    BY <1>11, <1>14, <2>2
  <2>6. m \in DOMAIN L /\ L[m].outer = Null
    BY <1>3, <1>18, <1>20, <1>21 DEF Adopts, Hung
  <2>7. Hung(L, v, l, Taken(L, l, r.black))
    <3>1. Taken(L, l, r.black) = T \cup {m}
      BY <1>19, <2>6
    <3>2. DOMAIN p = DOMAIN L
      BY <1>12 DEF SameLoops
    <3> HIDE DEF T
    <3> QED
      BY <1>18, <2>2, <3>1, <3>2 DEF Hung
  <2> QED
    BY <1>2, <1>13, <1>14, <1>15, <1>17, <2>2, <2>3, <2>4, <2>5, <2>7 DEF SearchKept
<1>22. CASE ~Adopts(s, m)
  <2>1. r.loops = p
    BY <1>10, <1>13, <1>22
  <2>2. Taken(L, l, r.black) = T
    <3>1. m \in DOMAIN L /\ L[m].outer = Null => m \in T
      <4> HIDE DEF T
      <4> QED
        BY <1>3, <1>18, <1>20, <1>22 DEF Adopts, Hung
    <3> QED
      BY <1>19, <3>1
  <2>3. Hung(L, p, l, Taken(L, l, r.black))
    BY <1>18, <2>2
  <2> QED
    BY <1>2, <1>7, <1>11, <1>12, <1>13, <1>14, <1>15, <1>17, <2>1, <2>3 DEF SearchKept
<1> QED
  BY <1>21, <1>22

\* The header is marked before the search.
LEMMA KeptMarks ==
  ASSUME NEW L \in Seq(Loop), NEW l \in DOMAIN L, NEW s \in SearchKept(L, l)
  PROVE  s \in SearchState /\ L[l].header \in s.black /\ s.black \subseteq Block
<1>1. s \in SearchState /\ Collected(s.loops[l].blocks, s.black, L[l].source, L[l].header)
  <2>1. s \in SearchState
    BY DEF SearchKept
  <2>2. Collected(s.loops[l].blocks, s.black, L[l].source, L[l].header)
    BY DEF SearchKept
  <2> QED
    BY <2>1, <2>2, Zenon
<1>2. s.black = Range(s.loops[l].blocks) \cup {L[l].header}
  BY <1>1, Zenon DEF Collected
<1>3. s.black \subseteq Block
  BY <1>1 DEF SearchState
<1> QED
  BY <1>1, <1>2, <1>3, Zenon

\* The calls for the predecessors of a block mark them all, if they are right.
LEMMA PredsSearched ==
  ASSUME succ \in Cfgs, NoDeadEdges(succ), NEW L \in Seq(Loop), NEW l \in DOMAIN L,
         NEW f, Visitor(f, SearchState, Block), NEW n \in Nat, SearchRight(f, L, l, n),
         NEW s \in SearchKept(L, l), Cardinality(Block \ s.black) <= n,
         NEW b \in Good(L[l].source, L[l].header)
  PROVE  LET r == EachOf(f, Preds(succ, b), s)
         IN  r \in SearchedSince(L, l, s) /\ PredSet(b) \subseteq r.black
<1> DEFINE P == SearchedSince(L, l, s)
           G == [c \in Block |-> {t \in SearchState : c \in t.black}]
<1>1. b \in Block
  BY ReachableFacts DEF Good
<1>2. PICK q : q = Preds(succ, b)
  OBVIOUS
<1>3. q \in Seq(Block) /\ Range(q) = PredSet(b) /\ Range(q) \subseteq Block
  BY <1>1, <1>2, PredsFacts DEF PredSet
<1>4. \A c \in Range(q) : c \in InBody(L, l)
  BY <1>3, BodyPredecessors DEF InBody
<1>5. s \in P
  BY DEF SearchedSince
<1>6. P \in SUBSET SearchState
  BY DEF SearchedSince, SearchKept
<1>7. ASSUME NEW t \in P, NEW c \in Range(q)
      PROVE  f[t][c] \in P /\ t.black \subseteq f[t][c].black /\ c \in f[t][c].black
  <2>1. t \in SearchKept(L, l) /\ s.black \subseteq t.black
        /\ \A d \in t.black \ s.black : PredSet(d) \subseteq t.black
    BY DEF SearchedSince
  <2>2. Cardinality(Block \ t.black) <= n
    <3>1. /\ Cardinality(Block \ t.black) \in Nat /\ Cardinality(Block \ s.black) \in Nat
          /\ Cardinality(Block \ t.black) <= Cardinality(Block \ s.black)
      BY <2>1, Unmarked
    <3> QED
      BY <3>1
  <2>3. PICK u : u = f[t][c]
    OBVIOUS
  <2>4. u \in SearchedSince(L, l, t) /\ c \in u.black
    BY <1>4, <2>1, <2>2, <2>3 DEF SearchRight
  <2>5. u \in SearchKept(L, l) /\ t.black \subseteq u.black
        /\ \A d \in u.black \ t.black : PredSet(d) \subseteq u.black
    BY <2>4 DEF SearchedSince
  <2>6. \A d \in u.black \ s.black : PredSet(d) \subseteq u.black
    BY <2>1, <2>5
  <2>7. u \in P
    BY <2>1, <2>5, <2>6 DEF SearchedSince
  <2> QED
    BY <2>3, <2>4, <2>5, <2>7
<1>8. PICK r : r = EachOf(f, q, s)
  OBVIOUS
<1> HIDE DEF P
<1>9. r \in P
  BY <1>3, <1>5, <1>6, <1>7, <1>8, EachOfKeeps
<1>10. \A c \in Range(q) : r \in G[c]
  <2>1. \A t \in P : \A c \in Range(q) : f[t][c] \in P
    BY <1>7
  <2>2. \A t \in P : \A c \in Range(q) : f[t][c] \in G[c]
    BY <1>3, <1>6, <1>7
  <2>3. \A t \in P : \A c, d \in Range(q) : t \in G[d] => f[t][c] \in G[d]
    BY <1>3, <1>6, <1>7
  <2> HIDE DEF G
  <2> QED
    BY <1>3, <1>5, <1>6, <1>8, <2>1, <2>2, <2>3, EachOfBrings
<1>11. PredSet(b) \subseteq r.black
  BY <1>3, <1>10
<1> QED
  BY <1>2, <1>8, <1>9, <1>11 DEF P

SearchCalls == [SearchState -> [Block -> SearchState]]

\* One call of LoopSearch keeps the state of the search a state of the search.
LEMMA SearchFromType ==
  ASSUME succ \in Cfgs, NEW f \in SearchCalls, NEW l \in Nat, NEW s \in SearchState, NEW b \in Block
  PROVE  SearchFrom(f, l, s, b) \in SearchState
<1>1. Visitor(f, SearchState, Block)
  BY DEF Visitor, SearchCalls
<1>2. PICK q : q = Preds(succ, b)
  OBVIOUS
<1>3. q \in Seq(Block) /\ Range(q) \subseteq Block
  BY <1>2, PredsFacts
<1>4. PICK t \in SearchState : t = Take(s, l, b)
  BY TakeType
<1>5. \A u \in SearchState : \A c \in Range(q) : f[u][c] \in SearchState
  BY <1>1, <1>3 DEF Visitor
<1>6. EachOf(f, q, t) \in SearchState
  BY <1>1, <1>3, <1>5, EachOfKeeps
<1> QED
  BY <1>2, <1>4, <1>6 DEF SearchFrom

\* One call of LoopSearch, if the calls it makes are right.
LEMMA SearchFromRight ==
  ASSUME succ \in Cfgs, NoDeadEdges(succ), NEW L \in Seq(Loop), NEW l \in DOMAIN L,
         NEW f, Visitor(f, SearchState, Block), NEW n \in Nat, SearchRight(f, L, l, n),
         NEW s \in SearchKept(L, l), Cardinality(Block \ s.black) <= n + 1, NEW b \in InBody(L, l)
  PROVE  LET r == SearchFrom(f, l, s, b) IN r \in SearchedSince(L, l, s) /\ b \in r.black
<1>1. CASE b \in s.black
  BY <1>1 DEF SearchFrom, SearchedSince
<1>2. CASE b \notin s.black
  <2>1. PICK t : t = Take(s, l, b)
    OBVIOUS
  <2>2. t \in SearchKept(L, l) /\ t.black = s.black \cup {b} /\ b \in Block
    BY <1>2, <2>1, TakeKeeps
  <2>3. Cardinality(Block \ t.black) <= n
    <3>1. Cardinality(Block \ s.black) \in Nat /\ b \in Block \ s.black
      BY <1>2, <2>2, Unmarked
    <3>2. Cardinality(Block \ t.black) = Cardinality(Block \ s.black) - 1
      BY <2>2, <3>1, Unmarked
    <3> QED
      BY <3>1, <3>2
  <2>4. b \in Good(L[l].source, L[l].header)
    BY <1>2, KeptMarks DEF InBody
  <2>5. PICK r : r = EachOf(f, Preds(succ, b), t)
    OBVIOUS
  <2>6. r \in SearchedSince(L, l, t) /\ PredSet(b) \subseteq r.black
    BY <2>2, <2>3, <2>4, <2>5, PredsSearched
  <2>7. r \in SearchKept(L, l) /\ t.black \subseteq r.black
        /\ \A c \in r.black \ t.black : PredSet(c) \subseteq r.black
    BY <2>6 DEF SearchedSince
  <2>8. r \in SearchedSince(L, l, s)
    BY <2>2, <2>6, <2>7 DEF SearchedSince
  <2>9. r = SearchFrom(f, l, s, b)
    BY <1>2, <2>1, <2>5 DEF SearchFrom
  <2> QED
    BY <2>2, <2>7, <2>8, <2>9
<1> QED
  BY <1>1, <1>2

\* LoopSearch for the blocks of loop l.
LEMMA LoopSearchRight ==
  ASSUME succ \in Cfgs, NoDeadEdges(succ), NEW L \in Seq(Loop), NEW l \in DOMAIN L
  PROVE  Visitor(LoopSearch(l), SearchState, Block) /\ SearchRight(LoopSearch(l), L, l, N)
<1> DEFINE base == [s \in SearchState |-> [b \in Block |-> s]]
           D(v, n) == IF n = 0 THEN [s \in SearchState |-> [b \in Block |-> s]]
                      ELSE [s \in SearchState |-> [b \in Block |-> SearchFrom(v[n - 1], l, s, b)]]
           step == [f \in SearchCalls |-> [s \in SearchState |-> [b \in Block |-> SearchFrom(f, l, s, b)]]]
           is(v) == v = [n \in 0 .. N |-> D(v, n)]
           search == CHOOSE v : is(v)
<1>1. N \in Nat /\ l \in Nat
  BY SizeAssumption
<1>2. base \in SearchCalls
  BY DEF SearchCalls
<1>3. ASSUME NEW f \in SearchCalls
      PROVE  [s \in SearchState |-> [b \in Block |-> SearchFrom(f, l, s, b)]] \in SearchCalls
  <2>1. \A s \in SearchState : \A b \in Block : SearchFrom(f, l, s, b) \in SearchState
    BY <1>1, SearchFromType
  <2> QED
    BY <2>1 DEF SearchCalls
<1>4. step \in [SearchCalls -> SearchCalls]
  <2> HIDE DEF SearchCalls
  <2> QED
    BY <1>3
<1>5. PICK v : Levels(N, SearchCalls, base, step, v)
  <2> HIDE DEF base, step
  <2> QED
    BY <1>1, <1>2, <1>4, LevelsExist
<1>6. is(v)
  <2>1. ASSUME NEW n \in 0 .. N PROVE v[n] = D(v, n)
    <3>1. CASE n = 0
      BY <1>5, <3>1 DEF Levels
    <3>2. CASE n # 0
      <4>1. n \in 1 .. N /\ n - 1 \in 0 .. N
        BY <1>1, <3>2
      <4>2. v[n - 1] \in SearchCalls /\ v[n] = step[v[n - 1]]
        BY <1>5, <4>1 DEF Levels
      <4> HIDE DEF SearchCalls
      <4> QED
        BY <4>2, <3>2
    <3> QED
      BY <3>1, <3>2
  <2> HIDE DEF D
  <2> QED
    BY <1>5, <2>1 DEF Levels
<1>7. is(search)
  <2> HIDE DEF is
  <2> QED
    BY <1>6
<1>8. LoopSearch(l) = search[N]
  BY DEF LoopSearch
<1> HIDE DEF search
<1> DEFINE P == [n \in 0 .. N |-> {f \in SearchCalls : SearchRight(f, L, l, n)}]
<1>9. search[0] \in P[0]
  <2>1. search[0] = base /\ 0 \in 0 .. N
    BY <1>1, <1>7
  <2>2. \A s \in SearchState : \A b \in Block : base[s][b] = s
    OBVIOUS
  <2>3. ASSUME NEW s \in SearchKept(L, l), Cardinality(Block \ s.black) <= 0, NEW b \in InBody(L, l)
        PROVE  base[s][b] \in SearchedSince(L, l, s) /\ b \in base[s][b].black
    <3>1. s \in SearchState /\ s \in SearchedSince(L, l, s)
      BY DEF SearchedSince, SearchKept
    <3>2. \A c \in Block : c \in s.black
      <4> SUFFICES ASSUME NEW c \in Block \ s.black PROVE FALSE
        OBVIOUS
      <4>1. /\ Cardinality(Block \ (s.black \cup {c})) \in Nat /\ Cardinality(Block \ s.black) \in Nat
            /\ Cardinality(Block \ (s.black \cup {c})) = Cardinality(Block \ s.black) - 1
        BY Unmarked
      <4> QED
        BY <2>3, <4>1
    <3>3. b \in s.black /\ b \in Block
      <4>1. CASE b \in Good(L[l].source, L[l].header)
        BY <3>2, <4>1, ReachableFacts DEF Good
      <4>2. CASE b = L[l].header
        <5>1. b \in s.black
          BY <4>2, KeptMarks
        <5> QED
          BY <3>1, <5>1 DEF SearchState
      <4> QED
        BY <4>1, <4>2 DEF InBody
    <3> HIDE DEF base
    <3> QED
      BY <2>2, <3>1, <3>3
  <2> HIDE DEF base
  <2> QED
    BY <1>2, <2>1, <2>3 DEF SearchRight
<1>10. ASSUME NEW n \in 1 .. N, search[n - 1] \in P[n - 1] PROVE search[n] \in P[n]
  <2>1. n \in 0 .. N /\ n # 0 /\ n - 1 \in 0 .. N /\ n - 1 \in Nat /\ (n - 1) + 1 = n
    BY <1>1
  <2>2. PICK f : f = search[n - 1]
    OBVIOUS
  <2>3. f \in SearchCalls /\ SearchRight(f, L, l, n - 1)
    BY <1>10, <2>1, <2>2
  <2>4. search[n] = [s \in SearchState |-> [b \in Block |-> SearchFrom(f, l, s, b)]]
    <3>1. search[n] = D(search, n)
      <4> HIDE DEF D
      <4> QED
        BY <1>7, <2>1
    <3> QED
      BY <2>1, <2>2, <3>1
  <2>5. search[n] \in SearchCalls
    BY <1>3, <2>3, <2>4
  <2>6. Visitor(f, SearchState, Block)
    BY <2>3 DEF Visitor, SearchCalls
  <2>7. ASSUME NEW s \in SearchKept(L, l), Cardinality(Block \ s.black) <= n, NEW b \in InBody(L, l)
        PROVE  search[n][s][b] \in SearchedSince(L, l, s) /\ b \in search[n][s][b].black
    <3>1. s \in SearchState /\ b \in Block
      <4>1. s \in SearchState /\ L[l].header \in s.black
        BY KeptMarks
      <4>2. L[l].header \in Block
        BY <4>1 DEF SearchState
      <4> QED
        BY <4>1, <4>2, ReachableFacts DEF InBody, Good
    <3>2. PICK k \in Nat : k = n - 1 /\ k + 1 = n
      BY <2>1
    <3>3. SearchRight(f, L, l, k) /\ Cardinality(Block \ s.black) <= k + 1
      BY <2>3, <2>7, <3>2
    <3>4. PICK r : r = SearchFrom(f, l, s, b)
      OBVIOUS
    <3>5. r \in SearchedSince(L, l, s) /\ b \in r.black
      BY <2>6, <3>3, <3>4, SearchFromRight
    <3> QED
      BY <2>4, <3>1, <3>4, <3>5
  <2>8. SearchRight(search[n], L, l, n)
    BY <2>7 DEF SearchRight
  <2> QED
    BY <2>1, <2>5, <2>8
<1>11. search[N] \in SearchCalls /\ SearchRight(search[N], L, l, N)
  <2>1. search[N] \in P[N] /\ N \in 0 .. N
    <3> HIDE DEF P
    <3> QED
      BY <1>1, <1>9, <1>10, LevelsKeep
  <2> QED
    BY <2>1
<1> QED
  BY <1>8, <1>11 DEF Visitor, SearchCalls

-----------------------------------------------------------------------------
(***************************************************************************)
(* The inductive invariant.                                                *)
(***************************************************************************)
Typed == /\ succ \in Cfgs /\ NoDeadEdges(succ)
         /\ loops \in Seq(Loop) /\ loop \in [Block -> Nat]
         /\ todo \in Seq(Block) /\ root \in Nat
         /\ pc \in {"collect", "populate", "tree", "done"}

\* The loops other than the root.
Found(ls, r) == DOMAIN ls \ {r}

\* Every block knows a loop that exists and is not the root.
LoopsExist(ls, lp, r) == \A b \in Block : lp[b] <= Len(ls) /\ (lp[b] = r => r = Null)

\* The blocks of loop l were collected, and they are right.
Body(g, l) ==
  /\ Range(l.blocks) = NaturalLoop(g, l.source, l.header)
  /\ IsInjective(l.blocks) /\ l.blocks # <<>>
  /\ Head(l.blocks) = l.source /\ Last(l.blocks) = l.header

\* In which phase what is the case.
Phase == /\ pc = "collect" => loops = <<>>
         /\ pc \in {"collect", "populate"} => root = Null
         /\ pc = "populate" => IsInjective(todo) /\ \A l \in Found(loops, root) :
                                 loops[l].header \in Range(todo) => loops[l].blocks = <<>>
         /\ pc \in {"tree", "done"} => root = Len(loops) /\ root # Null

\* PopulateLoops comes by the header of every loop that loop_ names there.
HeadersCollected ==
  pc # "collect" => \A b \in Reachable(succ) : IsLoopHeader(b) =>
                      loops[loop[b]].blocks # <<>> \/ (pc = "populate" /\ b \in Range(todo))

LoopInv == /\ Typed
           /\ LoopsExist(loops, loop, root)
           /\ Owned(loops)
           /\ \A l \in Found(loops, root) : IsBackEdge(loops[l])
           /\ \A l \in Found(loops, root) : loops[l].blocks = <<>> \/ Body(succ, loops[l])
           /\ HeadersCollected
           /\ Phase

\* If with the blocks their predecessors were marked, they are the natural loop.
LEMMA BodyIsNatural ==
  ASSUME succ \in Cfgs, NEW src, NEW h, NEW q \in Seq(Block), NEW black, Collected(q, black, src, h),
         \A c \in Range(q) : PredSet(c) \subseteq black
  PROVE  Range(q) \cup {h} = NaturalLoop(succ, src, h)
<1>1. NaturalLoop(succ, src, h) = {h} \cup Good(src, h)
  BY DEF NaturalLoop, Good
<1>2. Range(q) \subseteq Good(src, h) /\ black = Range(q) \cup {h} /\ q # <<>> /\ Head(q) = src
  BY DEF Collected
<1>3. src \in black
  BY <1>2, TailRange
<1>4. ASSUME NEW b \in Good(src, h), b \notin black PROVE FALSE
  <2> DEFINE T == Block \ black
             P == Block \ {h}
  <2>1. b \in T /\ src \in ReachFrom(succ, P, b)
    BY <1>4, ReachableFacts DEF Good
  <2>2. ASSUME NEW a \in T, NEW c \in SuccSet(succ, a) \cap P PROVE c \in T
    <3>1. a \in PredSet(c) /\ c # h /\ c \in Block
      BY DEF PredSet
    <3>2. c \notin black
      BY <1>2, <3>1
    <3> QED
      BY <3>1, <3>2
  <2>3. Closed(succ, P, b, T)
    <3> HIDE DEF T, P
    <3> QED
      BY <2>1, <2>2 DEF Closed
  <2>4. T \in SUBSET Block
    OBVIOUS
  <2> HIDE DEF T, P
  <2>5. src \in T
    BY <2>1, <2>3, <2>4, ReachOn
  <2> QED
    BY <1>3, <2>5 DEF T
<1> QED
  BY <1>1, <1>2, <1>4

\* A list without its head.
LEMMA TailInjective ==
  ASSUME NEW q \in Seq(Block), q # <<>>, IsInjective(q)
  PROVE  IsInjective(Tail(q)) /\ Head(q) \notin Range(Tail(q))
<1>1. PICK n \in Nat : n + 1 = Len(q)
  <2>1. Len(q) \in Nat \ {0}
    BY EmptySeq
  <2>2. Len(q) - 1 \in Nat /\ (Len(q) - 1) + 1 = Len(q)
    BY <2>1
  <2> QED
    BY <2>2
<1>2. PICK t : t = Tail(q)
  OBVIOUS
<1>3. DOMAIN t = 1 .. n /\ (\A i \in 1 .. n : t[i] = q[i + 1]) /\ Head(q) = q[1] /\ DOMAIN q = 1 .. n + 1
  BY <1>1, <1>2
<1>4. 1 \in 1 .. n + 1 /\ \A i \in 1 .. n : i + 1 \in 1 .. n + 1 /\ i + 1 # 1
  BY <1>1
<1>5. \A i, j \in 1 .. n : i + 1 = j + 1 => i = j
  BY <1>1
<1>6. IsInjective(t)
  <2> SUFFICES ASSUME NEW i \in 1 .. n, NEW j \in 1 .. n, t[i] = t[j] PROVE i = j
    BY <1>3 DEF IsInjective
  <2>1. q[i + 1] = q[j + 1] /\ i + 1 \in DOMAIN q /\ j + 1 \in DOMAIN q
    BY <1>3, <1>4
  <2>2. i + 1 = j + 1
    BY <2>1 DEF IsInjective
  <2> QED
    BY <1>5, <2>2
<1>7. Head(q) \notin Range(t)
  BY <1>3, <1>4 DEF IsInjective, Range
<1> QED
  BY <1>2, <1>6, <1>7

\* PopulateLoops at the header of a loop whose blocks were not collected.
LEMMA PopulateFacts ==
  ASSUME Typed, Owned(loops), \A b \in Block : loop[b] <= Len(loops), NEW b \in Block,
         IsLoopHeader(b), IsBackEdge(loops[loop[b]]), loops[loop[b]].blocks = <<>>, Populate(b)
  PROVE  /\ SameLoops(loops, loops', loop[b]) /\ loop[b] \in DOMAIN loops /\ Owned(loops')
         /\ loop' \in [Block -> Nat] /\ \A c \in Block : loop'[c] <= Len(loops)
         /\ Body(succ, loops'[loop[b]])
         /\ \A c \in Block : loop'[c] = IF /\ loop[c] = Null
                                           /\ c \in NaturalLoop(succ, loops[loop[b]].source, b)
                                           /\ c \notin {loops[loop[b]].source, b}
                                        THEN loop[b] ELSE loop[c]
         /\ Hung(loops, loops', loop[b], Taken(loops, loop[b], NaturalLoop(succ, loops[loop[b]].source, b)))
<1>1. PICK l \in Nat : l = loop[b]
  BY DEF Typed
<1>2. l \in DOMAIN loops /\ succ \in Cfgs /\ NoDeadEdges(succ) /\ loops \in Seq(Loop) /\ loop \in [Block -> Nat]
  <2>1. l \in Nat /\ l # 0 /\ l <= Len(loops)
    BY <1>1 DEF IsLoopHeader, Null
  <2>2. loops \in Seq(Loop) /\ DOMAIN loops = 1 .. Len(loops) /\ Len(loops) \in Nat
    BY DEF Typed
  <2> QED
    BY <2>1, <2>2 DEF Typed
<1>3. PICK src : src = loops[l].source
  OBVIOUS
<1>4. b = loops[l].header /\ <<src, b>> \in BackEdges /\ loops[l].blocks = <<>>
  BY <1>1, <1>3 DEF IsLoopHeader, IsBackEdge, EdgeOf
<1>5. src \in Reachable(succ) /\ src \in Block /\ src # b
  <2>1. src \in Reachable(succ) /\ CheckDominance(b, src)
    BY <1>4 DEF BackEdges
  <2>2. b # src
    BY <2>1 DEF CheckDominance, StrictDominators
  <2> QED
    BY <2>1, <2>2, ReachableFacts
<1>6. PICK first : first = [loops EXCEPT ![l].blocks = Append(@, src)]
  OBVIOUS
<1>7. Pushed(loops, first, l, src)
  BY <1>2, <1>5, <1>6, PushFacts
<1>8. PICK start : start = [black |-> {b, src}, loops |-> first, loop |-> loop]
  OBVIOUS
<1>9. start \in SearchKept(loops, l) /\ start.black = {b, src}
  <2>1. start \in SearchState /\ start.loops = first /\ start.loop = loop /\ start.black = {b, src}
    BY <1>2, <1>5, <1>7, <1>8 DEF SearchState, Pushed, SameLoops
  <2>2. SameLoops(loops, first, l) /\ Owned(first) /\ first[l].blocks = Append(loops[l].blocks, src)
    BY <1>2, <1>7 DEF Pushed
  <2>3. PICK o : o = loops[l].blocks
    OBVIOUS
  <2>4. o = <<>> /\ o \in Seq(Block) /\ IsInjective(o) /\ Range(o) = {}
    BY <1>4, <2>3 DEF IsInjective, Range
  <2>5. /\ Append(o, src) # <<>> /\ Range(Append(o, src)) = {src} /\ IsInjective(Append(o, src))
        /\ Head(Append(o, src)) = src
    <3>1. o \in Seq(Block) /\ IsInjective(o) /\ src \notin Range(o)
      BY <2>4
    <3>2. Append(o, src) # <<>> /\ Range(Append(o, src)) = Range(o) \cup {src} /\ IsInjective(Append(o, src))
      BY <1>5, <3>1, AppendMembers
    <3>3. Head(Append(o, src)) = src
      BY <2>4
    <3> QED
      BY <2>4, <3>2, <3>3
  <2>6. src \in Good(src, b)
    BY <1>5, ReachSelf DEF Good
  <2>7. Collected(Append(o, src), {b, src}, src, b)
    BY <2>5, <2>6 DEF Collected
  <2>8. Collected(start.loops[l].blocks, start.black, loops[l].source, loops[l].header)
    BY <1>3, <1>4, <2>1, <2>2, <2>3, <2>7
  <2>9. LoopOfMarked(start, loops, l)
    BY <1>3, <1>4, <2>1 DEF LoopOfMarked
  <2>10. Hung(loops, first, l, Taken(loops, l, start.black))
    <3>1. start.black = EndsOf(loops[l])
      BY <1>3, <1>4, <2>1 DEF EndsOf
    <3>2. Taken(loops, l, start.black) = {}
      BY <3>1 DEF Taken
    <3>3. \A k \in DOMAIN loops : first[k].inner = loops[k].inner /\ first[k].outer = loops[k].outer
      BY <1>7 DEF Pushed
    <3> QED
      BY <3>2, <3>3 DEF Hung
  <2> QED
    BY <2>1, <2>2, <2>8, <2>9, <2>10 DEF SearchKept
<1>10. PICK found : found = EachOf(LoopSearch(l), Preds(succ, src), start)
  OBVIOUS
<1>11. found \in SearchedSince(loops, l, start) /\ PredSet(src) \subseteq found.black
  <2>1. Visitor(LoopSearch(l), SearchState, Block) /\ SearchRight(LoopSearch(l), loops, l, N)
    BY <1>2, LoopSearchRight
  <2>2. PICK f : f = LoopSearch(l)
    OBVIOUS
  <2>3. Cardinality(Block \ start.black) <= N /\ N \in Nat
    BY SizeAssumption, Unmarked
  <2>4. src \in Good(loops[l].source, loops[l].header)
    BY <1>3, <1>4, <1>5, ReachSelf DEF Good
  <2> QED
    BY <1>2, <1>9, <1>10, <2>1, <2>2, <2>3, <2>4, PredsSearched
<1>12. PICK ls : ls = found.loops
  OBVIOUS
<1>13. /\ found \in SearchState /\ SameLoops(loops, ls, l) /\ Owned(ls) /\ ls \in Seq(Loop) /\ l \in DOMAIN ls
       /\ \A c \in Block : found.loop[c] <= Len(loops)
       /\ Collected(ls[l].blocks, found.black, src, b)
       /\ {b, src} \subseteq found.black /\ \A c \in found.black \ {b, src} : PredSet(c) \subseteq found.black
  <2>1. found \in SearchKept(loops, l)
    BY <1>11 DEF SearchedSince
  <2>2. found \in SearchState /\ SameLoops(loops, ls, l) /\ Owned(ls)
        /\ \A c \in Block : found.loop[c] <= Len(loops)
    BY <1>12, <2>1 DEF SearchKept
  <2>3. Collected(ls[l].blocks, found.black, src, b)
    BY <1>3, <1>4, <1>12, <2>1 DEF SearchKept
  <2> QED
    BY <1>2, <1>9, <1>11, <2>2, <2>3 DEF SearchedSince, SameLoops
<1>14. PICK q \in Seq(Block) : q = ls[l].blocks
  <2>1. ls[l] \in Loop
    BY <1>13
  <2> QED
    BY <2>1 DEF Loop
<1>15. PICK last : last = [ls EXCEPT ![l].blocks = Append(@, b)]
  OBVIOUS
<1>16. Pushed(ls, last, l, b)
  BY <1>2, <1>13, <1>15, PushFacts
<1>17. SameLoops(ls, last, l) /\ Owned(last) /\ last[l].blocks = Append(q, b)
  BY <1>13, <1>14, <1>16 DEF Pushed
<1>18. loops' = last /\ loop' = found.loop
  BY <1>1, <1>3, <1>4, <1>6, <1>8, <1>10, <1>12, <1>15 DEF Populate, MarkedFirst
<1>19. SameLoops(loops, last, l)
  BY <1>13, <1>17 DEF SameLoops
<1>20. last[l].source = src /\ last[l].header = b
  BY <1>2, <1>3, <1>4, <1>19 DEF SameLoops
<1>21. Range(q) \cup {b} = NaturalLoop(succ, src, b)
  <2>1. Collected(q, found.black, src, b)
    BY <1>13, <1>14
  <2>2. found.black = Range(q) \cup {b} /\ b \notin Range(q)
    BY <2>1 DEF Collected, Good
  <2>3. \A c \in Range(q) : PredSet(c) \subseteq found.black
    BY <1>11, <1>13, <2>2
  <2> QED
    BY <1>2, <2>1, <2>3, BodyIsNatural
<1>22. Body(succ, last[l])
  <2>1. q # <<>> /\ Head(q) = src /\ IsInjective(q) /\ b \notin Range(q)
    BY <1>13, <1>14 DEF Collected, Good
  <2>2. PICK o : o = Append(q, b)
    OBVIOUS
  <2>3. o # <<>> /\ Range(o) = Range(q) \cup {b} /\ IsInjective(o) /\ Last(o) = b /\ Head(o) = src
    BY <2>1, <2>2, AppendMembers
  <2> QED
    BY <1>17, <1>20, <1>21, <2>2, <2>3 DEF Body
<1>23. found.loop \in [Block -> Nat]
  BY <1>13 DEF SearchState
<1>24. found.black = NaturalLoop(succ, src, b)
  <2>1. Collected(q, found.black, src, b)
    BY <1>13, <1>14
  <2> QED
    BY <1>21, <2>1 DEF Collected
<1>25. ASSUME NEW c \in Block
       PROVE  found.loop[c] = IF loop[c] = Null /\ c \in NaturalLoop(succ, src, b) /\ c \notin {src, b}
                              THEN l ELSE loop[c]
  <2>1. LoopOfMarked(found, loops, l)
    BY <1>11 DEF SearchedSince, SearchKept
  <2> QED
    BY <1>3, <1>4, <1>24, <2>1 DEF LoopOfMarked
<1>26. Hung(loops, last, l, Taken(loops, l, NaturalLoop(succ, src, b)))
  <2>1. Hung(loops, ls, l, Taken(loops, l, found.black))
    BY <1>11, <1>12 DEF SearchedSince, SearchKept
  <2>2. \A k \in DOMAIN loops : last[k].inner = ls[k].inner /\ last[k].outer = ls[k].outer
    BY <1>13, <1>16 DEF Pushed, SameLoops
  <2>3. PICK T : T = Taken(loops, l, found.black)
    OBVIOUS
  <2>4. Hung(loops, last, l, T)
    BY <2>1, <2>2, <2>3 DEF Hung
  <2> QED
    BY <1>24, <2>3, <2>4
<1> QED
  BY <1>1, <1>2, <1>3, <1>13, <1>17, <1>18, <1>19, <1>22, <1>23, <1>25, <1>26

\* The analysis starts with no loop.
LEMMA InitLoopInv == Init => LoopInv
<1> SUFFICES ASSUME Init PROVE LoopInv
  OBVIOUS
<1>1. Typed
  BY DEF Init, Typed, Null
<1>2. loops = <<>> /\ root = Null /\ DOMAIN loops = {} /\ Len(loops) = 0 /\ pc = "collect" /\ \A b \in Block : loop[b] = 0
  BY DEF Init, Null
<1> QED
  BY <1>1, <1>2 DEF LoopInv, LoopsExist, Owned, Found, HeadersCollected, Phase, Null

\* CollectBackEdges starts with no loop and no mark.
CollectStart == [black |-> {}, gray |-> {}, loops |-> loops, loop |-> loop]

\* What CollectBackEdges finds.
LEMMA CollectFacts ==
  ASSUME LoopInv, CollectBackEdges
  PROVE  \E r \in EdgesKept : /\ Edges(r.loops) = BackEdges
                             /\ loops' = r.loops /\ loop' = r.loop /\ todo' = PostOrder(succ)
                             /\ pc' = "populate" /\ succ' = succ /\ root' = Null /\ root = Null
                             /\ succ \in Cfgs /\ NoDeadEdges(succ)
<1>1. Typed /\ loops = <<>> /\ root = Null /\ pc = "collect" /\ succ \in Cfgs /\ NoDeadEdges(succ)
      /\ loop \in [Block -> Nat] /\ LoopsExist(loops, loop, root)
  BY DEF LoopInv, Phase, Typed, CollectBackEdges
<1>2. PICK s : s = CollectStart
  OBVIOUS
<1>3. s \in EdgesKept /\ s.gray = {} /\ s.black = {} /\ s.loops = <<>>
  <2>1. s.gray = {} /\ s.black = {} /\ s.loops = loops /\ s.loop = loop /\ loops \in Seq(Loop) /\ DOMAIN loops = {}
        /\ Len(loops) = 0
    BY <1>1, <1>2 DEF Typed, CollectStart
  <2>2. s \in EdgeState
    BY <1>1, <1>2, <2>1 DEF EdgeState, CollectStart
  <2>3. \A b \in Block : loop[b] = Null
    BY <1>1, <2>1 DEF LoopsExist, Null
  <2>4. Once(s.loops) /\ Named(s.loops, s.loop)
    BY <2>1, <2>3 DEF Once, Named
  <2> QED
    BY <1>1, <2>1, <2>2, <2>4 DEF EdgesKept
<1>4. PICK r : r = ProccessEdge[Null][s][Root]
  OBVIOUS
<1>5. r \in EdgesKept /\ Edges(r.loops) = BackEdges
  BY <1>1, <1>3, <1>4, ProccessEdgeRight
<1>6. loops' = r.loops /\ loop' = r.loop /\ todo' = PostOrder(succ) /\ pc' = "populate" /\ succ' = succ /\ root' = Null
  BY <1>1, <1>2, <1>4 DEF CollectBackEdges, FromInnermost, CollectStart
<1> QED
  BY <1>1, <1>5, <1>6

LEMMA CollectLoopInv == LoopInv /\ CollectBackEdges => LoopInv'
<1> SUFFICES ASSUME LoopInv, CollectBackEdges PROVE LoopInv'
  OBVIOUS
<1>1. PICK r \in EdgesKept : /\ Edges(r.loops) = BackEdges
                             /\ loops' = r.loops /\ loop' = r.loop /\ todo' = PostOrder(succ)
                             /\ pc' = "populate" /\ succ' = succ /\ root' = Null /\ root = Null
                             /\ succ \in Cfgs /\ NoDeadEdges(succ)
  BY CollectFacts
<1>2. todo' \in Seq(Block) /\ IsInjective(todo')
  BY <1>1, PostOrderFacts
<1>3. Typed'
  BY <1>1, <1>2 DEF Typed, EdgesKept, EdgeState, Null, NoDeadEdges
<1>4. Len(r.loops) \in Nat /\ DOMAIN r.loops = 1 .. Len(r.loops)
  BY <1>1 DEF EdgesKept, EdgeState
<1>5. LoopsExist(loops', loop', root')
  <2>1. ASSUME NEW b \in Block PROVE r.loop[b] <= Len(r.loops)
    <3>1. r.loop[b] \in Nat /\ (r.loop[b] # Null => r.loop[b] \in DOMAIN r.loops)
      BY DEF EdgesKept, EdgeState, Named
    <3> QED
      BY <1>4, <3>1 DEF Null
  <2> QED
    BY <1>1, <2>1 DEF LoopsExist
<1>6. \A l \in DOMAIN r.loops : IsBackEdge(r.loops[l]) /\ r.loops[l].blocks = <<>> /\ r.loops[l].inner = <<>>
  BY DEF EdgesKept, Fresh
<1>7. Owned(loops')
  BY <1>1, <1>6 DEF Owned, IsInjective, Range
<1>8. BackEdges' = BackEdges
  BY <1>1 DEF BackEdges, CheckDominance
<1>9. \A l \in Found(loops', root') : IsBackEdge(loops[l])'
  BY <1>1, <1>6, <1>8 DEF IsBackEdge, Found
<1>10. \A l \in Found(loops', root') : loops'[l].blocks = <<>>
  BY <1>1, <1>6 DEF Found
<1>11. Phase'
  BY <1>1, <1>2, <1>10 DEF Phase
<1>12. HeadersCollected'
  <2>1. Range(todo') = Reachable(succ')
    BY <1>1, PostOrderFacts
  <2> QED
    BY <1>1, <2>1 DEF HeadersCollected
<1> QED
  BY <1>3, <1>5, <1>7, <1>9, <1>10, <1>11, <1>12 DEF LoopInv

LEMMA PopulateLoopInv == LoopInv /\ PopulateLoops => LoopInv'
<1> SUFFICES ASSUME LoopInv, PopulateLoops PROVE LoopInv'
  OBVIOUS
<1>1. Typed /\ LoopsExist(loops, loop, root) /\ Owned(loops) /\ pc = "populate" /\ root = Null /\ todo # <<>>
      /\ IsInjective(todo) /\ todo \in Seq(Block) /\ loops \in Seq(Loop) /\ DOMAIN loops = 1 .. Len(loops)
      /\ Found(loops, root) = DOMAIN loops
  <2>1. Typed /\ pc = "populate" /\ root = Null /\ todo # <<>> /\ IsInjective(todo) /\ todo \in Seq(Block) /\ loops \in Seq(Loop)
    BY DEF LoopInv, Phase, Typed, PopulateLoops
  <2>2. LoopsExist(loops, loop, root) /\ Owned(loops) /\ DOMAIN loops = 1 .. Len(loops)
    BY <2>1 DEF LoopInv
  <2> QED
    BY <2>1, <2>2 DEF Found, Null
<1>2. /\ \A l \in DOMAIN loops : IsBackEdge(loops[l])
      /\ \A l \in DOMAIN loops : loops[l].blocks = <<>> \/ Body(succ, loops[l])
      /\ \A l \in DOMAIN loops : loops[l].header \in Range(todo) => loops[l].blocks = <<>>
  BY <1>1 DEF LoopInv, Phase
<1>3. todo' = Tail(todo) /\ succ' = succ /\ root' = root /\ pc' = pc
  BY DEF PopulateLoops
<1>4. PICK b : b = Head(todo)
  OBVIOUS
<1>5. b \in Block /\ b \in Range(todo) /\ todo' \in Seq(Block) /\ Range(todo') \subseteq Range(todo)
      /\ IsInjective(todo') /\ b \notin Range(todo') /\ \A c \in Range(todo) : c = b \/ c \in Range(todo')
  <2>1. b \in Range(todo) /\ todo' \in Seq(Block) /\ Range(todo') \subseteq Range(todo)
        /\ \A c \in Range(todo) : c = b \/ c \in Range(todo')
    BY <1>1, <1>3, <1>4, TailRange
  <2>2. IsInjective(todo') /\ b \notin Range(todo')
    BY <1>1, <1>3, <1>4, TailInjective
  <2>3. Range(todo) \subseteq Block
    BY <1>1 DEF Range
  <2> QED
    BY <2>1, <2>2, <2>3
<1>6. BackEdges' = BackEdges
  BY <1>3 DEF BackEdges, CheckDominance
<1>7. CASE ~IsLoopHeader(b)
  <2>1. loops' = loops /\ loop' = loop
    BY <1>4, <1>7 DEF PopulateLoops
  <2>2. Typed'
    BY <1>1, <1>3, <1>5, <2>1 DEF Typed, NoDeadEdges
  <2>3. Found(loops', root') = DOMAIN loops
    BY <1>1, <1>3, <2>1
  <2>4. Phase'
    BY <1>1, <1>2, <1>3, <1>5, <2>1, <2>3 DEF Phase
  <2>5. \A l \in Found(loops', root') : IsBackEdge(loops[l])'
    BY <1>2, <1>6, <2>1, <2>3 DEF IsBackEdge
  <2>6. \A l \in Found(loops', root') : loops'[l].blocks = <<>> \/ Body(succ', loops'[l])
    BY <1>2, <1>3, <2>1, <2>3
  <2>7. HeadersCollected'
    <3>1. \A c \in Reachable(succ) : IsLoopHeader(c) => c # b
      BY <1>7
    <3> QED
      BY <1>1, <1>3, <1>5, <2>1, <3>1 DEF LoopInv, HeadersCollected, IsLoopHeader
  <2> QED
    BY <1>1, <1>3, <2>1, <2>2, <2>4, <2>5, <2>6, <2>7 DEF LoopInv
<1>8. CASE IsLoopHeader(b)
  <2>1. PICK l : l = loop[b]
    OBVIOUS
  <2>2. l \in DOMAIN loops /\ loops[l].header = b
    <3>1. l # 0 /\ l \in Nat /\ l <= Len(loops) /\ Len(loops) \in Nat
      BY <1>1, <1>5, <1>8, <2>1 DEF IsLoopHeader, Null, LoopsExist, Typed
    <3> QED
      BY <1>1, <1>8, <2>1, <3>1 DEF IsLoopHeader
  <2>3. loops[l].blocks = <<>> /\ IsBackEdge(loops[l])
    BY <1>2, <1>5, <2>2
  <2>4. Populate(b)
    BY <1>4, <1>8 DEF PopulateLoops
  <2>5. \A c \in Block : loop[c] <= Len(loops)
    BY <1>1 DEF LoopsExist
  <2>6. /\ SameLoops(loops, loops', l) /\ Owned(loops')
        /\ loop' \in [Block -> Nat] /\ \A c \in Block : loop'[c] <= Len(loops)
        /\ Body(succ, loops'[l])
        /\ \A c \in Block : loop'[c] = loop[c] \/ (loop'[c] = l /\ c # b)
    BY <1>1, <1>5, <1>8, <2>1, <2>3, <2>4, <2>5, PopulateFacts
  <2>7. loops' \in Seq(Loop) /\ Len(loops') = Len(loops) /\ DOMAIN loops' = DOMAIN loops
        /\ \A k \in DOMAIN loops : /\ loops'[k].source = loops[k].source /\ loops'[k].header = loops[k].header
                                   /\ (k # l => loops'[k].blocks = loops[k].blocks)
    BY <2>6 DEF SameLoops
  <2>8. Typed'
    BY <1>1, <1>3, <1>5, <2>6, <2>7 DEF Typed, NoDeadEdges
  <2>9. Found(loops', root') = DOMAIN loops
    BY <1>1, <1>3, <2>7 DEF Found
  <2>10. LoopsExist(loops', loop', root')
    BY <1>1, <1>3, <2>6, <2>7 DEF LoopsExist
  <2>11. \A k \in Found(loops', root') : IsBackEdge(loops[k])'
    BY <1>2, <1>6, <2>7, <2>9 DEF IsBackEdge, EdgeOf
  <2>12. ASSUME NEW k \in DOMAIN loops PROVE loops'[k].blocks = <<>> \/ Body(succ, loops'[k])
    <3>1. CASE k = l
      BY <2>6, <3>1
    <3>2. CASE k # l
      BY <1>2, <2>7, <3>2 DEF Body
    <3> QED
      BY <3>1, <3>2
  <2>13. ASSUME NEW k \in DOMAIN loops, loops'[k].header \in Range(todo') PROVE loops'[k].blocks = <<>>
    <3>1. loops[k].header \in Range(todo) /\ loops[k].header # b
      BY <1>5, <2>7, <2>13
    <3>2. k # l
      BY <2>2, <3>1
    <3> QED
      BY <1>2, <2>7, <3>1, <3>2
  <2>14. Phase'
    BY <1>1, <1>3, <1>5, <2>9, <2>13 DEF Phase
  <2>15. HeadersCollected'
    <3> SUFFICES ASSUME NEW c \in Reachable(succ), loop'[c] # Null, loops'[loop'[c]].header = c
                 PROVE  loops'[loop'[c]].blocks # <<>> \/ c \in Range(todo')
      BY <1>1, <1>3 DEF HeadersCollected, IsLoopHeader
    <3>1. c \in Block /\ loop'[c] \in Nat /\ loop'[c] <= Len(loops)
      BY <1>1, <2>6, ReachableFacts
    <3>2. PICK k : k = loop'[c]
      OBVIOUS
    <3>3. k \in DOMAIN loops
      BY <1>1, <3>1, <3>2 DEF Null
    <3>4. CASE k = l
      BY <2>6, <3>2, <3>4 DEF Body
    <3>5. CASE k # l
      <4>1. loop[c] = k /\ loops[k].header = c /\ loops'[k].blocks = loops[k].blocks
        BY <2>6, <2>7, <3>1, <3>2, <3>3, <3>5
      <4>2. IsLoopHeader(c) /\ c # b
        BY <2>1, <3>2, <3>5, <4>1 DEF IsLoopHeader
      <4>3. loops[k].blocks # <<>> \/ c \in Range(todo)
        BY <1>1, <4>1, <4>2 DEF LoopInv, HeadersCollected
      <4> QED
        BY <1>5, <3>2, <4>1, <4>2, <4>3
    <3> QED
      BY <3>4, <3>5
  <2> QED
    BY <1>3, <2>6, <2>8, <2>9, <2>10, <2>11, <2>12, <2>14, <2>15 DEF LoopInv
<1> QED
  BY <1>7, <1>8

LEMMA NewRootLoopInv == LoopInv /\ NewRoot => LoopInv'
<1> SUFFICES ASSUME LoopInv, NewRoot PROVE LoopInv'
  OBVIOUS
<1>1. Typed /\ LoopsExist(loops, loop, root) /\ Owned(loops) /\ pc = "populate" /\ root = Null /\ loops \in Seq(Loop)
  BY DEF LoopInv, Phase, Typed, NewRoot
<1>2. PICK n \in Nat : n = Len(loops)
  BY <1>1
<1>3. PICK new : new = NewLoop(Null, Null)
  OBVIOUS
<1>4. new \in Loop /\ new.inner = <<>>
  BY <1>3 DEF NewLoop, Loop, Null
<1>5. succ' = succ /\ loop' = loop /\ root' = n + 1 /\ pc' = "tree" /\ loops' = Append(loops, new)
      /\ todo' = [i \in 1 .. N |-> i]
  BY <1>2, <1>3 DEF NewRoot
<1>6. loops' \in Seq(Loop) /\ Len(loops') = n + 1 /\ DOMAIN loops' = 1 .. n + 1 /\ DOMAIN loops = 1 .. n
      /\ loops'[n + 1] = new /\ \A k \in 1 .. n : loops'[k] = loops[k]
  BY <1>1, <1>2, <1>4, <1>5
<1>7. Found(loops', root') = DOMAIN loops /\ Found(loops, root) = DOMAIN loops
  <2>1. 1 .. n = (1 .. n + 1) \ {n + 1} /\ 0 \notin 1 .. n
    BY <1>2
  <2> QED
    BY <1>1, <1>5, <1>6, <2>1 DEF Found, Null
<1>8. todo' \in Seq(Block)
  <2>1. N \in Nat /\ \A i \in 1 .. N : i \in Block
    BY SizeAssumption DEF Block
  <2> QED
    BY <1>5, <2>1
<1>9. Typed'
  BY <1>1, <1>2, <1>5, <1>6, <1>8 DEF Typed, NoDeadEdges
<1>10. LoopsExist(loops', loop', root')
  <2>1. \A b \in Block : loop[b] <= n /\ loop[b] \in Nat
    BY <1>1, <1>2 DEF LoopsExist, Typed
  <2>2. \A b \in Block : loop[b] <= n + 1 /\ loop[b] # n + 1
    BY <1>2, <2>1
  <2> QED
    BY <1>5, <1>6, <2>2 DEF LoopsExist
<1>11. Owned(loops')
  <2>1. \A k \in 1 .. n + 1 : k = n + 1 \/ k \in 1 .. n
    BY <1>2
  <2>2. \A k \in 1 .. n : k \in 1 .. n + 1
    BY <1>2
  <2>3. IsInjective(new.inner) /\ Range(new.inner) = {}
    BY <1>4 DEF IsInjective, Range
  <2>4. \A k \in 1 .. n + 1 : IsInjective(loops'[k].inner)
    BY <1>1, <1>6, <2>1, <2>3 DEF Owned
  <2>5. ASSUME NEW k \in 1 .. n + 1, NEW j \in Range(loops'[k].inner) PROVE j \in 1 .. n + 1 /\ loops'[j].outer = k
    <3>1. k \in 1 .. n
      BY <1>6, <2>1, <2>3, <2>5
    <3>2. j \in 1 .. n /\ loops[j].outer = k
      BY <1>1, <1>6, <2>5, <3>1 DEF Owned
    <3> QED
      BY <1>6, <2>2, <3>2
  <2> QED
    BY <1>6, <2>4, <2>5 DEF Owned
<1>12. BackEdges' = BackEdges
  BY <1>5 DEF BackEdges, CheckDominance
<1>13. \A l \in Found(loops', root') : IsBackEdge(loops[l])'
  BY <1>6, <1>7, <1>12 DEF IsBackEdge, LoopInv
<1>14. \A l \in Found(loops', root') : loops'[l].blocks = <<>> \/ Body(succ', loops'[l])
  BY <1>5, <1>6, <1>7 DEF LoopInv
<1>15. Phase'
  <2>1. n + 1 # 0
    BY <1>2
  <2> QED
    BY <1>5, <1>6, <2>1 DEF Phase, Null
<1>16. HeadersCollected'
  <2> SUFFICES ASSUME NEW c \in Reachable(succ), loop[c] # Null, loops'[loop[c]].header = c
               PROVE  loops'[loop[c]].blocks # <<>>
    BY <1>5 DEF HeadersCollected, IsLoopHeader
  <2>1. c \in Block /\ loop[c] \in Nat /\ loop[c] <= n
    BY <1>1, <1>2, ReachableFacts DEF LoopsExist, Typed
  <2>2. loop[c] \in 1 .. n
    BY <1>2, <2>1 DEF Null
  <2>3. loops'[loop[c]] = loops[loop[c]]
    BY <1>6, <2>2
  <2>4. c \notin Range(todo)
    BY DEF NewRoot, Range
  <2> QED
    BY <1>1, <2>3, <2>4 DEF LoopInv, HeadersCollected, IsLoopHeader
<1> QED
  BY <1>9, <1>10, <1>11, <1>13, <1>14, <1>15, <1>16 DEF LoopInv

\* The loops that BuildLoopTree hangs under the root when it meets block b.
Grafted(b) == IF loop[b] # Null /\ loops[loop[b]].outer = Null THEN TopLoops(loop[b]) ELSE {}

\* p is q after the step for block b.
Built(q, p, b) ==
  /\ \A k \in DOMAIN q \ {root} : p[k].outer = IF k \in Grafted(b) THEN root ELSE q[k].outer
  /\ \A k \in DOMAIN q : Range(p[k].inner) = IF k = root /\ Grafted(b) # {} THEN Range(q[k].inner) \cup {loop[b]}
                                             ELSE Range(q[k].inner)
  /\ Range(p[root].blocks) = IF loop[b] = Null THEN Range(q[root].blocks) \cup {b} ELSE Range(q[root].blocks)

\* One block of BuildLoopTree leaves the loops as they are but for the tree.
LEMMA TreeFacts ==
  ASSUME LoopInv, BuildLoopTree
  PROVE  SameLoops(loops, loops', root) /\ Owned(loops') /\ Built(loops, loops', Head(todo))
<1>1. Typed /\ LoopsExist(loops, loop, root) /\ Owned(loops) /\ root = Len(loops) /\ root # 0 /\ todo # <<>>
      /\ loops \in Seq(Loop) /\ todo \in Seq(Block)
  BY DEF LoopInv, Phase, Typed, BuildLoopTree, Null
<1>2. PICK n \in Nat : n = Len(loops)
  BY <1>1
<1>3. DOMAIN loops = 1 .. n /\ root = n /\ n \in 1 .. n /\ loops \in [1 .. n -> Loop] /\ n \in Nat
  BY <1>1, <1>2
<1>4. PICK b : b = Head(todo)
  OBVIOUS
<1>5. b \in Block
  BY <1>1, <1>4, TailRange DEF Range
<1>6. PICK l \in Nat : l = loop[b]
  BY <1>1, <1>5 DEF Typed
<1>7. l <= n /\ l # n
  BY <1>1, <1>2, <1>5, <1>6 DEF LoopsExist, Null
<1>8. CASE l = Null
  <2>1. loops' = [loops EXCEPT ![root].blocks = Append(@, b)]
    BY <1>4, <1>6, <1>8 DEF BuildLoopTree
  <2>2. Pushed(loops, loops', root, b)
    BY <1>1, <1>3, <1>5, <2>1, PushFacts
  <2>3. Range(loops'[root].blocks) = Range(loops[root].blocks) \cup {b}
    <3>1. PICK q \in Seq(Block) : q = loops[root].blocks
      <4>1. loops[root] \in Loop
        BY <1>3
      <4> QED
        BY <4>1 DEF Loop
    <3>2. Range(Append(q, b)) = Range(q) \cup {b}
      BY <1>5, AppendMembers
    <3> QED
      BY <1>3, <2>2, <3>1, <3>2 DEF Pushed
  <2>4. Grafted(b) = {}
    BY <1>6, <1>8 DEF Grafted
  <2>5. Built(loops, loops', b)
    BY <1>6, <1>8, <2>2, <2>3, <2>4 DEF Pushed, Built
  <2> QED
    BY <1>1, <1>4, <2>2, <2>5 DEF Pushed
<1>9. CASE l # Null /\ loops[l].outer # Null
  <2>1. loops' = loops
    BY <1>4, <1>6, <1>9 DEF BuildLoopTree
  <2>2. Grafted(b) = {}
    BY <1>6, <1>9 DEF Grafted
  <2>3. Built(loops, loops', b)
    BY <1>6, <1>9, <2>1, <2>2 DEF Built
  <2> QED
    BY <1>1, <1>4, <2>1, <2>3 DEF SameLoops
<1>10. CASE l # Null /\ loops[l].outer = Null
  <2>1. PICK T : T = TopLoops(l)
    OBVIOUS
  <2>2. l \in T /\ \A m \in T : loops[m].outer = Null
    BY <1>10, <2>1 DEF TopLoops
  <2>3. l \in 1 .. n
    BY <1>2, <1>7, <1>10 DEF Null
  <2> DEFINE R(m) == IF m = root THEN [loops[m] EXCEPT !.inner = Append(@, l)]
                     ELSE IF m \in T THEN [loops[m] EXCEPT !.outer = root]
                     ELSE loops[m]
  <2>4. loops' = [m \in 1 .. n |-> R(m)]
    BY <1>3, <1>4, <1>6, <1>10, <2>1 DEF BuildLoopTree
  <2>5. ASSUME NEW m \in 1 .. n
        PROVE  /\ R(m) \in Loop /\ R(m).source = loops[m].source /\ R(m).header = loops[m].header
               /\ R(m).blocks = loops[m].blocks
               /\ R(m).inner = IF m = root THEN Append(loops[m].inner, l) ELSE loops[m].inner
               /\ R(m).outer = IF m # root /\ m \in T THEN root ELSE loops[m].outer
    <3>1. PICK r \in Loop : r = loops[m]
      BY <1>3
    <3>2. CASE m = root
      <4>1. PICK a : a = Append(r.inner, l)
        OBVIOUS
      <4>2. a \in Seq(Nat)
        BY <3>1, <4>1 DEF Loop
      <4>3. R(m) = [r EXCEPT !.inner = a]
        BY <3>1, <3>2, <4>1
      <4> HIDE DEF R
      <4> QED
        BY <3>1, <3>2, <4>1, <4>2, <4>3 DEF Loop
    <3>3. CASE m # root /\ m \in T
      <4>1. R(m) = [r EXCEPT !.outer = root]
        BY <3>1, <3>3
      <4> HIDE DEF R
      <4> QED
        BY <1>3, <3>1, <3>3, <4>1 DEF Loop
    <3>4. CASE m # root /\ m \notin T
      <4>1. R(m) = r
        BY <3>1, <3>4
      <4> HIDE DEF R
      <4> QED
        BY <3>1, <3>4, <4>1
    <3> QED
      BY <3>2, <3>3, <3>4
  <2> HIDE DEF R
  <2>6. loops' \in [1 .. n -> Loop] /\ \A m \in 1 .. n : loops'[m] = R(m)
    BY <2>4, <2>5
  <2>7. loops' \in Seq(Loop) /\ Len(loops') = n /\ DOMAIN loops' = 1 .. n
    BY <1>2, <2>6
  <2>8. SameLoops(loops, loops', root)
    BY <1>2, <1>3, <2>5, <2>6, <2>7 DEF SameLoops
  <2>9. ASSUME NEW m \in 1 .. n PROVE IsInjective(loops'[m].inner)
    <3>1. loops[m].inner \in Seq(Nat) /\ IsInjective(loops[m].inner)
      <4>1. loops[m] \in Loop
        BY <1>3
      <4> QED
        BY <1>1, <1>3, <4>1 DEF Loop, Owned
    <3>2. CASE m = root
      <4>1. PICK i \in Seq(Nat) : i = loops[m].inner
        BY <3>1
      <4>2. l \notin Range(i)
        <5>1. l \in Range(i) => loops[l].outer = root
          BY <1>1, <1>3, <3>2, <4>1 DEF Owned
        <5> QED
          BY <1>1, <1>10, <5>1 DEF Null
      <4>3. IsInjective(Append(i, l))
        BY <3>1, <4>1, <4>2, AppendMembers
      <4> QED
        BY <2>5, <2>6, <3>2, <4>1, <4>3
    <3>3. CASE m # root
      BY <2>5, <2>6, <3>1, <3>3
    <3> QED
      BY <3>2, <3>3
  <2>10. ASSUME NEW m \in 1 .. n, NEW k \in Range(loops'[m].inner) PROVE k \in 1 .. n /\ loops'[k].outer = m
    <3>1. ASSUME k \in Range(loops[m].inner) PROVE k \in 1 .. n /\ loops'[k].outer = m
      <4>1. k \in 1 .. n /\ loops[k].outer = m
        BY <1>1, <1>3, <3>1 DEF Owned
      <4>2. k \notin T
        BY <2>2, <4>1 DEF Null
      <4> QED
        BY <2>5, <2>6, <4>1, <4>2
    <3>2. ASSUME m = root, k = l PROVE k \in 1 .. n /\ loops'[k].outer = m
      <4>1. l # root
        BY <1>3, <1>7
      <4> QED
        BY <2>2, <2>3, <2>5, <2>6, <3>2, <4>1
    <3>3. k \in Range(loops[m].inner) \/ (m = root /\ k = l)
      <4>1. CASE m = root
        <5>1. PICK i \in Seq(Nat) : i = loops[m].inner
          <6>1. loops[m] \in Loop
            BY <1>3
          <6> QED
            BY <6>1 DEF Loop
        <5>2. Range(Append(i, l)) = Range(i) \cup {l}
          BY AppendMembers
        <5> QED
          BY <2>5, <2>6, <2>10, <4>1, <5>1, <5>2
      <4>2. CASE m # root
        BY <2>5, <2>6, <2>10, <4>2
      <4> QED
        BY <4>1, <4>2
    <3> QED
      BY <3>1, <3>2, <3>3
  <2>11. Range(Append(loops[root].inner, l)) = Range(loops[root].inner) \cup {l}
    <3>1. PICK i \in Seq(Nat) : i = loops[root].inner
      <4>1. loops[root] \in Loop
        BY <1>3
      <4> QED
        BY <4>1 DEF Loop
    <3>2. Range(Append(i, l)) = Range(i) \cup {l}
      BY AppendMembers
    <3> QED
      BY <3>1, <3>2
  <2>12. Grafted(b) = T /\ T # {} /\ loop[b] = l
    BY <1>6, <1>10, <2>1, <2>2 DEF Grafted
  <2>13. \A k \in 1 .. n : Range(loops'[k].inner) = IF k = root THEN Range(loops[k].inner) \cup {l} ELSE Range(loops[k].inner)
    BY <2>5, <2>6, <2>11
  <2>14. Built(loops, loops', b)
    BY <1>3, <1>10, <2>5, <2>6, <2>12, <2>13 DEF Built
  <2> QED
    BY <1>4, <2>7, <2>8, <2>9, <2>10, <2>14 DEF Owned
<1> QED
  BY <1>8, <1>9, <1>10

LEMMA BuildLoopInv == LoopInv /\ BuildLoopTree => LoopInv'
<1> SUFFICES ASSUME LoopInv, BuildLoopTree PROVE LoopInv'
  OBVIOUS
<1>1. Typed /\ LoopsExist(loops, loop, root) /\ root = Len(loops) /\ root # Null /\ todo # <<>> /\ todo \in Seq(Block)
      /\ pc = "tree"
  BY DEF LoopInv, Phase, Typed, BuildLoopTree
<1>2. SameLoops(loops, loops', root) /\ Owned(loops')
  BY TreeFacts
<1>3. succ' = succ /\ loop' = loop /\ root' = root /\ pc' = pc /\ todo' = Tail(todo)
  BY DEF BuildLoopTree
<1>4. loops' \in Seq(Loop) /\ Len(loops') = Len(loops) /\ DOMAIN loops' = DOMAIN loops
      /\ \A k \in DOMAIN loops : loops'[k].source = loops[k].source /\ loops'[k].header = loops[k].header
                                /\ (k # root => loops'[k].blocks = loops[k].blocks)
  BY <1>2 DEF SameLoops
<1>5. todo' \in Seq(Block)
  BY <1>1, <1>3, TailRange
<1>6. Typed'
  BY <1>1, <1>3, <1>4, <1>5 DEF Typed, NoDeadEdges
<1>7. LoopsExist(loops', loop', root') /\ Phase'
  BY <1>1, <1>3, <1>4 DEF LoopsExist, Phase
<1>8. BackEdges' = BackEdges
  BY <1>3 DEF BackEdges, CheckDominance
<1>9. \A l \in Found(loops', root') : IsBackEdge(loops[l])'
  BY <1>3, <1>4, <1>8 DEF IsBackEdge, EdgeOf, LoopInv, Found
<1>10. ASSUME NEW k \in Found(loops', root') PROVE loops'[k].blocks = <<>> \/ Body(succ', loops'[k])
  <2>1. k \in DOMAIN loops /\ k # root /\ k \in Found(loops, root)
    BY <1>3, <1>4 DEF Found
  <2>2. loops[k].blocks = <<>> \/ Body(succ, loops[k])
    BY <2>1 DEF LoopInv
  <2> QED
    BY <1>3, <1>4, <2>1, <2>2 DEF Body
<1>11. HeadersCollected'
  <2> SUFFICES ASSUME NEW c \in Reachable(succ), loop[c] # Null, loops'[loop[c]].header = c
               PROVE  loops'[loop[c]].blocks # <<>>
    BY <1>3 DEF HeadersCollected, IsLoopHeader
  <2>1. PICK k \in Nat : k = loop[c] /\ k # Null /\ k # root /\ k <= Len(loops)
    BY <1>1, ReachableFacts DEF LoopsExist, Typed
  <2>2. k \in DOMAIN loops
    BY <1>1, <2>1 DEF Null, Typed
  <2> QED
    BY <1>1, <1>4, <2>1, <2>2 DEF LoopInv, HeadersCollected, IsLoopHeader
<1> QED
  BY <1>2, <1>6, <1>7, <1>9, <1>10, <1>11 DEF LoopInv

LEMMA SetRootLoopInv == LoopInv /\ SetRootLoop => LoopInv'
<1> SUFFICES ASSUME LoopInv, SetRootLoop PROVE LoopInv'
  OBVIOUS
<1>1. succ' = succ /\ loops' = loops /\ loop' = loop /\ todo' = todo /\ root' = root /\ pc = "tree" /\ pc' = "done"
  BY DEF SetRootLoop
<1>2. BackEdges' = BackEdges
  BY <1>1 DEF BackEdges, CheckDominance
<1>3. Typed'
  BY <1>1 DEF LoopInv, Typed, NoDeadEdges
<1>4. Phase' /\ HeadersCollected'
  BY <1>1 DEF LoopInv, Phase, HeadersCollected, IsLoopHeader
<1>5. \A l \in Found(loops', root') : IsBackEdge(loops[l])'
  BY <1>1, <1>2 DEF IsBackEdge, LoopInv
<1> QED
  BY <1>1, <1>3, <1>4, <1>5 DEF LoopInv

LEMMA StutterLoopInv == LoopInv /\ UNCHANGED vars => LoopInv'
<1> SUFFICES ASSUME LoopInv, UNCHANGED vars PROVE LoopInv'
  OBVIOUS
<1>1. succ' = succ /\ loops' = loops /\ loop' = loop /\ todo' = todo /\ root' = root /\ pc' = pc
  BY DEF vars
<1>2. BackEdges' = BackEdges
  BY <1>1 DEF BackEdges, CheckDominance
<1>3. Typed' /\ Phase' /\ HeadersCollected'
  BY <1>1 DEF LoopInv, Typed, NoDeadEdges, Phase, HeadersCollected, IsLoopHeader
<1>4. \A l \in Found(loops', root') : IsBackEdge(loops[l])'
  BY <1>1, <1>2 DEF IsBackEdge, LoopInv
<1> QED
  BY <1>1, <1>3, <1>4 DEF LoopInv

\* Every step keeps the invariant.
THEOREM Invariant == Spec => []LoopInv
<1>1. LoopInv /\ [Next]_vars => LoopInv'
  BY CollectLoopInv, PopulateLoopInv, NewRootLoopInv, BuildLoopInv, SetRootLoopInv, StutterLoopInv DEF Next, Terminated
<1> QED
  BY InitLoopInv, <1>1, PTL DEF Spec

-----------------------------------------------------------------------------
\* The blocks that LoopSearch collects for a back edge are its natural loop, each
\* of them once, the source first and the header last, in every graph.
THEOREM LoopsAreNatural == Spec => []BodiesNatural
<1>1. LoopInv => BodiesNatural
  <2> SUFFICES ASSUME LoopInv, NEW l \in Bodies
               PROVE  /\ BodyOf(l) = NaturalLoop(succ, loops[l].source, loops[l].header)
                      /\ IsInjective(loops[l].blocks)
                      /\ Head(loops[l].blocks) = loops[l].source /\ Last(loops[l].blocks) = loops[l].header
    BY DEF BodiesNatural
  <2>1. l \in Found(loops, root) /\ loops[l].blocks # <<>>
    BY DEF Bodies, Found
  <2>2. Body(succ, loops[l])
    BY <2>1 DEF LoopInv
  <2> QED
    BY <2>2 DEF Body, BodyOf
<1> QED
  BY <1>1, Invariant, PTL

\* No loop is among the inner loops of two others, or twice of one, whatever the
\* order in which PopulateLoops and BuildLoopTree meet the blocks.
THEOREM LoopsOwnedOnce == Spec => []OwnedOnce
<1>1. LoopInv => OwnedOnce
  BY DEF LoopInv, Owned, OwnedOnce
<1> QED
  BY <1>1, Invariant, PTL

\* A loop is created only for a back edge: an edge between reachable blocks to a
\* block that dominates its source.
THEOREM LoopsAreBackEdges == Spec => [](\A l \in Found(loops, root) : IsBackEdge(loops[l]))
<1>1. LoopInv => \A l \in Found(loops, root) : IsBackEdge(loops[l])
  BY DEF LoopInv
<1> QED
  BY <1>1, Invariant, PTL

-----------------------------------------------------------------------------
(***************************************************************************)
(* The loop tree of a structured graph.  Every block knows the innermost   *)
(* loop around it whose blocks were collected, and a loop hangs under the  *)
(* least loop around it.  PopulateLoops comes by the header of a loop      *)
(* after those of the loops in it, so when the blocks of a loop are        *)
(* collected, the loops in it that hang under no other are just those      *)
(* directly in it.                                                         *)
(***************************************************************************)
\* The natural loop of a Loop object.
In(l) == NaturalLoop(succ, l.source, l.header)

\* The loops of F are those of the back edges.
Matched(ls, F) == /\ {EdgeOf(ls[l]) : l \in F} = BackEdges
                  /\ \A l, m \in F : EdgeOf(ls[l]) = EdgeOf(ls[m]) => l = m

\* loop_ of a block is the innermost loop around it, once that was collected.
Innermost(ls, lp, F) ==
  /\ \A b \in Block : lp[b] # Null =>
       /\ lp[b] \in F /\ b \in In(ls[lp[b]])
       /\ \A m \in F : b \in In(ls[m]) => In(ls[lp[b]]) \subseteq In(ls[m])
       /\ ls[lp[b]].blocks = <<>> => b \in EndsOf(ls[lp[b]])
  /\ \A l \in F : \A b \in EndsOf(ls[l]) : lp[b] = l
  /\ \A l \in F : ls[l].blocks # <<>> => \A b \in In(ls[l]) : lp[b] # Null

\* Loop o is the least loop around loop m.
Around(ls, F, m, o) ==
  /\ o \in F \ {m} /\ In(ls[m]) \subseteq In(ls[o])
  /\ \A k \in F \ {m} : In(ls[m]) \subseteq In(ls[k]) => In(ls[o]) \subseteq In(ls[k])

\* The loops inside a loop that was collected hang under the least loop around them.
Hanging(ls, F, r) ==
  /\ \A m \in F : ls[m].outer \notin {Null, r} => m \in Range(ls[ls[m].outer].inner) /\ Around(ls, F, m, ls[m].outer)
  /\ \A k \in F : ls[k].blocks # <<>> => \A m \in F \ {k} : In(ls[m]) \subseteq In(ls[k]) => ls[m].outer # Null

\* BuildLoopTree has hung the rest under the root r, but for what it finds at the blocks in left.
UnderRoot(ls, lp, F, r, left) ==
  /\ \A m \in F : ls[m].outer = r => m \in Range(ls[r].inner) /\ \A k \in F \ {m} : ~(In(ls[m]) \subseteq In(ls[k]))
  /\ Range(ls[r].blocks) \subseteq {b \in Block : lp[b] = Null}
  /\ \A b \in Block \ left : IF lp[b] = Null THEN b \in Range(ls[r].blocks) ELSE ls[lp[b]].outer # Null

\* What a block dominates comes before it.
InOrder(q) == \A i, j \in DOMAIN q : q[i] \in StrictDominators(succ, q[j]) => j < i

TreeAt(ls, lp, q, r, phase) ==
  /\ phase # "collect" => Matched(ls, Found(ls, r))
  /\ phase # "collect" /\ Structured => Innermost(ls, lp, Found(ls, r)) /\ Hanging(ls, Found(ls, r), r)
  /\ phase = "populate" => InOrder(q)
  /\ phase \in {"tree", "done"} /\ Structured => /\ \A l \in Found(ls, r) : ls[l].blocks # <<>>
                                                 /\ UnderRoot(ls, lp, Found(ls, r), r, Range(q))
  /\ phase = "done" => q = <<>>

TreeInv == TreeAt(loops, loop, todo, root, pc)

\* The loops of a structured graph.
LEMMA StructuredLoops ==
  ASSUME succ \in Cfgs, Structured, NEW ls, NEW F, Matched(ls, F), NEW l \in F, NEW m \in F
  PROVE  /\ EndsOf(ls[l]) \subseteq In(ls[l]) /\ In(ls[l]) \subseteq Block /\ In(ls[l]) \subseteq Reachable(succ)
         /\ \A b \in In(ls[l]) : Dominates(succ, ls[l].header, b)
         /\ l # m => /\ EndsOf(ls[l]) \cap EndsOf(ls[m]) = {} /\ In(ls[l]) # In(ls[m])
                     /\ \/ In(ls[l]) \cap In(ls[m]) = {}
                        \/ In(ls[l]) \subseteq In(ls[m])
                        \/ In(ls[m]) \subseteq In(ls[l])
         /\ \A b \in EndsOf(ls[l]) : b \in In(ls[m]) => In(ls[l]) \subseteq In(ls[m])
<1>1. PICK e : e = EdgeOf(ls[l])
  OBVIOUS
<1>2. PICK f : f = EdgeOf(ls[m])
  OBVIOUS
<1>3. e \in BackEdges /\ f \in BackEdges /\ (l # m => e # f)
  BY <1>1, <1>2 DEF Matched
<1>4. /\ EndsOf(ls[l]) = {e[1], e[2]} /\ In(ls[l]) = NaturalLoop(succ, e[1], e[2]) /\ ls[l].header = e[2]
      /\ EndsOf(ls[m]) = {f[1], f[2]} /\ In(ls[m]) = NaturalLoop(succ, f[1], f[2])
  BY <1>1, <1>2 DEF EndsOf, EdgeOf, In
<1>5. /\ {e[1], e[2]} \subseteq NaturalLoop(succ, e[1], e[2])
      /\ NaturalLoop(succ, e[1], e[2]) \subseteq Reachable(succ)
      /\ \A b \in NaturalLoop(succ, e[1], e[2]) : Dominates(succ, e[2], b)
  BY <1>3, BackEdgeFacts
<1>6. l # m =>
         /\ {e[1], e[2]} \cap {f[1], f[2]} = {}
         /\ NaturalLoop(succ, e[1], e[2]) # NaturalLoop(succ, f[1], f[2])
         /\ \/ NaturalLoop(succ, e[1], e[2]) \cap NaturalLoop(succ, f[1], f[2]) = {}
            \/ NaturalLoop(succ, e[1], e[2]) \subseteq NaturalLoop(succ, f[1], f[2])
            \/ NaturalLoop(succ, f[1], f[2]) \subseteq NaturalLoop(succ, e[1], e[2])
         /\ \A b \in {e[1], e[2]} : b \in NaturalLoop(succ, f[1], f[2]) =>
              NaturalLoop(succ, e[1], e[2]) \subseteq NaturalLoop(succ, f[1], f[2])
  BY <1>3, StructuredEdges
<1> QED
  BY <1>4, <1>5, <1>6, ReachableFacts

\* q has the loops of p but for the blocks of l, which were collected in q.
Collecting(p, q, l) ==
  /\ SameLoops(p, q, l) /\ l \in DOMAIN p
  /\ p[l].blocks = <<>> /\ q[l].blocks # <<>>

\* What loop_ becomes when the blocks of loop l are collected.
Renamed(ls, lp, lq, l) ==
  \A c \in Block : lq[c] = IF lp[c] = Null /\ c \in In(ls[l]) \ EndsOf(ls[l]) THEN l ELSE lp[c]

\* The loops that are hung under l then.
Hooked(ls, lp, l) == {m \in DOMAIN ls : ls[m].outer = Null /\ \E b \in In(ls[l]) \ EndsOf(ls[l]) : lp[b] = m}

\* The loops inside l were collected before.
InnerFirst(ls, F, l) == \A m \in F \ {l} : In(ls[m]) \subseteq In(ls[l]) => ls[m].blocks # <<>>

\* A loop is collected after the loops in it: loop_ stays the innermost loop.
LEMMA InnermostGrows ==
  ASSUME succ \in Cfgs, Structured, NEW ls, NEW lp, NEW F, F \subseteq DOMAIN ls, Null \notin F, Matched(ls, F), Innermost(ls, lp, F),
         NEW l \in F, NEW ls2, Collecting(ls, ls2, l), InnerFirst(ls, F, l), NEW lp2, Renamed(ls, lp, lp2, l)
  PROVE  Innermost(ls2, lp2, F) /\ \A m \in F : In(ls2[m]) = In(ls[m]) /\ EndsOf(ls2[m]) = EndsOf(ls[m])
<1>1. \A m \in F : /\ In(ls2[m]) = In(ls[m]) /\ EndsOf(ls2[m]) = EndsOf(ls[m])
                   /\ (m # l => ls2[m].blocks = ls[m].blocks)
  BY DEF Collecting, SameLoops, In, EndsOf
<1>2. ls[l].blocks = <<>> /\ ls2[l].blocks # <<>>
  BY DEF Collecting
<1>3. \A m \in F : EndsOf(ls[m]) \subseteq Block /\ In(ls[m]) \subseteq Block
  BY StructuredLoops
<1>4. ASSUME NEW b \in Block, lp2[b] # Null
      PROVE  /\ lp2[b] \in F /\ b \in In(ls2[lp2[b]])
             /\ \A m \in F : b \in In(ls2[m]) => In(ls2[lp2[b]]) \subseteq In(ls2[m])
             /\ ls2[lp2[b]].blocks = <<>> => b \in EndsOf(ls2[lp2[b]])
  <2>1. CASE lp[b] # Null
    <3>1. lp2[b] = lp[b]
      BY <2>1 DEF Renamed
    <3>2. /\ lp[b] \in F /\ b \in In(ls[lp[b]])
          /\ \A m \in F : b \in In(ls[m]) => In(ls[lp[b]]) \subseteq In(ls[m])
          /\ ls[lp[b]].blocks = <<>> => b \in EndsOf(ls[lp[b]])
      BY <2>1 DEF Innermost
    <3> QED
      BY <1>1, <1>2, <3>1, <3>2
  <2>2. CASE lp[b] = Null
    <3>1. lp2[b] = l /\ b \in In(ls[l])
      BY <1>4, <2>2 DEF Renamed
    <3>2. ASSUME NEW m \in F, b \in In(ls[m]) PROVE In(ls[l]) \subseteq In(ls[m])
      <4>1. m # l => ls[m].blocks = <<>>
        BY <2>2, <3>2 DEF Innermost
      <4>2. m # l => ~(In(ls[m]) \subseteq In(ls[l]))
        BY <4>1 DEF InnerFirst
      <4> QED
        BY <3>1, <3>2, <4>2, StructuredLoops
    <3> QED
      BY <1>1, <1>2, <3>1, <3>2
  <2> QED
    BY <2>1, <2>2
<1>5. ASSUME NEW m \in F, NEW b \in EndsOf(ls2[m]) PROVE lp2[b] = m
  <2>1. b \in Block /\ lp[b] = m
    BY <1>1, <1>3 DEF Innermost
  <2>2. b \notin In(ls[l]) \ EndsOf(ls[l]) \/ lp[b] # Null \/ m = l
    <3>1. m = Null => b \notin EndsOf(ls[l]) \/ m = l
      BY <2>1 DEF Innermost
    <3> QED
      BY <2>1, <3>1 DEF Collecting, SameLoops
  <2> QED
    BY <2>1, <2>2 DEF Renamed
<1>6. ASSUME NEW m \in F, ls2[m].blocks # <<>>, NEW b \in In(ls2[m]) PROVE lp2[b] # Null
  <2>1. b \in Block /\ b \in In(ls[m])
    BY <1>1, <1>3
  <2>2. CASE m # l
    <3>1. lp[b] # Null
      BY <1>1, <1>6, <2>1, <2>2 DEF Innermost
    <3> QED
      BY <2>1, <3>1 DEF Renamed
  <2>3. CASE m = l
    <3>1. CASE b \in EndsOf(ls[l])
      BY <1>1, <1>5, <2>3, <3>1
    <3>2. CASE b \notin EndsOf(ls[l])
      BY <2>1, <2>3, <3>2 DEF Renamed
    <3> QED
      BY <3>1, <3>2
  <2> QED
    BY <2>2, <2>3
<1> QED
  BY <1>1, <1>4, <1>5, <1>6 DEF Innermost
\* The loops directly inside a loop are hung under it when its blocks are collected.
LEMMA HangingGrows ==
  ASSUME succ \in Cfgs, Structured, NEW ls, NEW lp, NEW F, F = DOMAIN ls, Null \notin F, Matched(ls, F), Innermost(ls, lp, F),
         Hanging(ls, F, Null), NEW l \in F, NEW ls2, Collecting(ls, ls2, l), InnerFirst(ls, F, l),
         Hung(ls, ls2, l, Hooked(ls, lp, l))
  PROVE  Hanging(ls2, F, Null)
<1>1. \A m \in F : /\ In(ls2[m]) = In(ls[m])
                   /\ (m # l => ls2[m].blocks = ls[m].blocks)
  BY DEF Collecting, SameLoops, In
<1>2. PICK T : T = Hooked(ls, lp, l)
  OBVIOUS
<1>3. \A m \in F : /\ ls2[m].outer = IF m \in T THEN l ELSE ls[m].outer
                   /\ Range(ls2[m].inner) = IF m = l THEN Range(ls[m].inner) \cup T ELSE Range(ls[m].inner)
  BY <1>2 DEF Hung
<1>4. ls[l].blocks = <<>>
  BY DEF Collecting
<1>5. \A m \in F : EndsOf(ls[m]) \subseteq In(ls[m]) /\ In(ls[m]) \subseteq Block /\ ls[m].header \in EndsOf(ls[m])
  BY StructuredLoops DEF EndsOf
<1>6. ASSUME NEW m \in T
      PROVE  /\ m \in F /\ m # l /\ ls[m].outer = Null /\ In(ls[m]) \subseteq In(ls[l])
             /\ \A k \in F \ {m} : In(ls[m]) \subseteq In(ls[k]) => In(ls[l]) \subseteq In(ls[k])
  <2>1. PICK b \in In(ls[l]) \ EndsOf(ls[l]) : lp[b] = m /\ m \in F /\ ls[m].outer = Null
    BY <1>2 DEF Hooked
  <2>2. b \in Block /\ m # Null
    BY <1>5, <2>1
  <2>3. b \in In(ls[m]) /\ In(ls[m]) \subseteq In(ls[l]) /\ m # l
    BY <1>4, <2>1, <2>2 DEF Innermost
  <2>4. ASSUME NEW k \in F \ {m}, In(ls[m]) \subseteq In(ls[k]) PROVE In(ls[l]) \subseteq In(ls[k])
    <3>1. k # l => ~(In(ls[k]) \subseteq In(ls[l]))
      BY <2>1, <2>4 DEF Hanging, InnerFirst
    <3>2. b \in In(ls[k]) /\ b \in In(ls[l])
      BY <2>1, <2>3, <2>4
    <3> QED
      BY <3>1, <3>2, StructuredLoops
  <2> QED
    BY <2>1, <2>3, <2>4
<1>7. ASSUME NEW m \in F, ls2[m].outer # Null
      PROVE  m \in Range(ls2[ls2[m].outer].inner) /\ Around(ls2, F, m, ls2[m].outer)
  <2>1. CASE m \in T
    <3>1. ls2[m].outer = l /\ m \in Range(ls2[l].inner)
      BY <1>3, <2>1
    <3>2. Around(ls2, F, m, l)
      BY <1>1, <1>6, <2>1 DEF Around
    <3> QED
      BY <3>1, <3>2
  <2>2. CASE m \notin T
    <3>1. PICK o : o = ls[m].outer
      OBVIOUS
    <3>2. ls2[m].outer = o /\ m \in Range(ls[o].inner) /\ Around(ls, F, m, o)
      BY <1>3, <1>7, <2>2, <3>1 DEF Hanging
    <3>3. m \in Range(ls2[o].inner) /\ Around(ls2, F, m, o)
      BY <1>1, <1>3, <3>2 DEF Around
    <3> QED
      BY <3>2, <3>3
  <2> QED
    BY <2>1, <2>2
<1>8. ASSUME NEW k \in F, ls2[k].blocks # <<>>, NEW m \in F \ {k}, In(ls2[m]) \subseteq In(ls2[k])
      PROVE  ls2[m].outer # Null
  <2>1. In(ls[m]) \subseteq In(ls[k])
    BY <1>1, <1>8
  <2>2. CASE k # l
    <3>1. ls[m].outer # Null
      BY <1>1, <1>8, <2>1, <2>2 DEF Hanging
    <3> QED
      BY <1>3, <3>1
  <2>3. CASE k = l
    <3>1. PICK b : b = ls[m].header
      OBVIOUS
    <3>2. b \in In(ls[l]) /\ lp[b] = m
      BY <1>5, <2>1, <2>3, <3>1 DEF Innermost
    <3>3. b \notin EndsOf(ls[l])
      BY <1>5, <2>3, <3>1, StructuredLoops
    <3>4. ls[m].outer = Null => m \in T
      BY <1>2, <3>2, <3>3 DEF Hooked
    <3> QED
      BY <1>3, <3>4
  <2> QED
    BY <2>2, <2>3
<1> QED
  BY <1>7, <1>8 DEF Hanging

\* The graph does not change.
LEMMA TreeNext ==
  ASSUME succ' = succ, NEW ls, ls = loops', NEW lp, lp = loop', NEW q, q = todo', NEW r, r = root',
         NEW phase, phase = pc', TreeAt(ls, lp, q, r, phase)
  PROVE  TreeInv'
<1>1. BackEdges' = BackEdges
  BY DEF BackEdges, CheckDominance
<1>2. Structured' = Structured
  BY <1>1 DEF Structured, NaturalLoops
<1>3. PICK F : F = Found(ls, r)
  OBVIOUS
<1>4. Found(loops, root)' = F
  BY <1>3 DEF Found
<1>5. Matched(ls, F) => Matched(loops, Found(loops, root))'
  BY <1>1, <1>4 DEF Matched
<1>6. Innermost(ls, lp, F) => Innermost(loops, loop, Found(loops, root))'
  BY <1>4 DEF Innermost, In
<1>7. Hanging(ls, F, r) => Hanging(loops, Found(loops, root), root)'
  BY <1>4 DEF Hanging, Around, In
<1>8. InOrder(q) => InOrder(todo)'
  BY DEF InOrder
<1>9. UnderRoot(ls, lp, F, r, Range(q)) => UnderRoot(loops, loop, Found(loops, root), root, Range(todo))'
  BY <1>4 DEF UnderRoot, In
<1> QED
  BY <1>2, <1>3, <1>4, <1>5, <1>6, <1>7, <1>8, <1>9 DEF TreeInv, TreeAt


\* The post-order lists what is dominated first, and so does what is left of it.
LEMMA PostOrderInOrder ==
  ASSUME succ \in Cfgs
  PROVE  InOrder(PostOrder(succ))
<1>1. PICK q : q = PostOrder(succ)
  OBVIOUS
<1>2. q \in Seq(Block) /\ IsInjective(q) /\ Range(q) = Reachable(succ) /\ DominatedFirst(succ, q)
  BY <1>1, PostOrderFacts
<1>3. ASSUME NEW i \in DOMAIN q, NEW j \in DOMAIN q, q[i] \in StrictDominators(succ, q[j]) PROVE j < i
  <2>1. q[j] \in Reachable(succ)
    BY <1>2 DEF Range
  <2>2. PICK k \in DOMAIN q : k < i /\ q[k] = q[j]
    BY <1>2, <1>3, <2>1 DEF DominatedFirst
  <2> QED
    BY <1>2, <2>2 DEF IsInjective
<1> QED
  BY <1>1, <1>3 DEF InOrder

LEMMA TailInOrder ==
  ASSUME NEW q \in Seq(Block), q # <<>>, InOrder(q)
  PROVE  InOrder(Tail(q)) /\ \A b \in Range(q) : Head(q) \notin StrictDominators(succ, b)
<1>1. PICK n \in Nat : n + 1 = Len(q)
  <2>1. Len(q) \in Nat \ {0}
    BY EmptySeq
  <2>2. Len(q) - 1 \in Nat /\ (Len(q) - 1) + 1 = Len(q)
    BY <2>1
  <2> QED
    BY <2>2
<1>2. PICK t : t = Tail(q)
  OBVIOUS
<1>3. DOMAIN t = 1 .. n /\ (\A i \in 1 .. n : t[i] = q[i + 1]) /\ Head(q) = q[1] /\ DOMAIN q = 1 .. n + 1
  BY <1>1, <1>2
<1>4. 1 \in 1 .. n + 1 /\ (\A i \in 1 .. n : i + 1 \in 1 .. n + 1) /\ \A i \in 1 .. n + 1 : ~(i < 1)
  BY <1>1
<1>5. \A i, j \in 1 .. n : j + 1 < i + 1 => j < i
  BY <1>1
<1>6. ASSUME NEW i \in 1 .. n, NEW j \in 1 .. n, t[i] \in StrictDominators(succ, t[j]) PROVE j < i
  <2>1. q[i + 1] \in StrictDominators(succ, q[j + 1]) /\ i + 1 \in DOMAIN q /\ j + 1 \in DOMAIN q
    BY <1>3, <1>4, <1>6
  <2>2. j + 1 < i + 1
    BY <2>1 DEF InOrder
  <2> QED
    BY <1>5, <2>2
<1>7. ASSUME NEW b \in Range(q), q[1] \in StrictDominators(succ, b) PROVE FALSE
  <2>1. PICK j \in DOMAIN q : b = q[j]
    BY DEF Range
  <2>2. j < 1
    BY <1>3, <1>4, <1>7, <2>1 DEF InOrder
  <2> QED
    BY <1>3, <1>4, <2>2
<1> QED
  BY <1>2, <1>3, <1>6, <1>7 DEF InOrder

\* The visit finds the loops of the back edges, and no tree.
LEMMA CollectTree ==
  ASSUME LoopInv, CollectBackEdges
  PROVE  TreeInv'
<1>1. PICK r \in EdgesKept : /\ Edges(r.loops) = BackEdges
                             /\ loops' = r.loops /\ loop' = r.loop /\ todo' = PostOrder(succ)
                             /\ pc' = "populate" /\ succ' = succ /\ root' = Null
                             /\ succ \in Cfgs
  BY CollectFacts
<1>2. PICK ls : ls = r.loops
  OBVIOUS
<1>3. PICK lp : lp = r.loop
  OBVIOUS
<1>4. PICK F : F = DOMAIN ls
  OBVIOUS
<1>5. ls \in Seq(Loop) /\ (\A l \in F : Fresh(ls[l])) /\ Once(ls) /\ Named(ls, lp) /\ Edges(ls) = BackEdges
  BY <1>1, <1>2, <1>3, <1>4 DEF EdgesKept, EdgeState
<1>6. Found(ls, Null) = F
  <2>1. DOMAIN ls = 1 .. Len(ls) /\ Len(ls) \in Nat
    BY <1>5
  <2> QED
    BY <1>4, <2>1 DEF Found, Null
<1>7. Matched(ls, F)
  BY <1>4, <1>5 DEF Matched, Edges, Once
<1>8. \A l \in F : ls[l].blocks = <<>> /\ ls[l].outer = Null
  BY <1>5 DEF Fresh
<1>9. ASSUME Structured PROVE Innermost(ls, lp, F)
  <2>1. \A l \in F : \A b \in EndsOf(ls[l]) : b \in In(ls[l]) /\ lp[b] = l
    BY <1>1, <1>4, <1>5, <1>7, <1>9, StructuredLoops DEF Named
  <2>2. ASSUME NEW b \in Block, lp[b] # Null
        PROVE  /\ lp[b] \in F /\ b \in EndsOf(ls[lp[b]])
               /\ \A m \in F : b \in In(ls[m]) => In(ls[lp[b]]) \subseteq In(ls[m])
    <3>1. lp[b] \in F /\ b \in EndsOf(ls[lp[b]])
      BY <1>4, <1>5, <2>2 DEF Named
    <3> QED
      BY <1>1, <1>7, <1>9, <3>1, StructuredLoops
  <2> QED
    BY <1>8, <2>1, <2>2 DEF Innermost
<1>10. Hanging(ls, F, Null)
  BY <1>8 DEF Hanging
<1>11. PICK q : q = PostOrder(succ)
  OBVIOUS
<1>12. InOrder(q)
  BY <1>1, <1>11, PostOrderInOrder
<1>13. PICK none : none = Null
  OBVIOUS
<1>14. PICK phase : phase = "populate"
  OBVIOUS
<1>15. TreeAt(ls, lp, q, none, phase)
  BY <1>6, <1>7, <1>9, <1>10, <1>12, <1>13, <1>14 DEF TreeAt
<1> QED
  BY <1>1, <1>2, <1>3, <1>11, <1>13, <1>14, <1>15, TreeNext

\* The blocks of the loops inside the one whose header is next were collected.
LEMMA NextIsInnermost ==
  ASSUME LoopInv, TreeInv, Structured, pc = "populate", todo # <<>>, NEW l \in DOMAIN loops, loops[l].header = Head(todo)
  PROVE  InnerFirst(loops, DOMAIN loops, l)
<1>1. PICK F : F = DOMAIN loops
  OBVIOUS
<1>2. succ \in Cfgs /\ todo \in Seq(Block) /\ loops \in Seq(Loop) /\ Found(loops, root) = F /\ Null \notin F
  <2>1. succ \in Cfgs /\ todo \in Seq(Block) /\ loops \in Seq(Loop) /\ root = Null
    BY DEF LoopInv, Typed, Phase
  <2>2. DOMAIN loops = 1 .. Len(loops) /\ Len(loops) \in Nat
    BY <2>1
  <2> QED
    BY <1>1, <2>1, <2>2 DEF Found, Null
<1>3. Matched(loops, F) /\ Innermost(loops, loop, F) /\ InOrder(todo)
  BY <1>2 DEF TreeInv, TreeAt
<1>4. ASSUME NEW m \in F \ {l}, In(loops[m]) \subseteq In(loops[l]) PROVE loops[m].blocks # <<>>
  <2>1. PICK h : h = loops[m].header
    OBVIOUS
  <2>2. PICK b : b = Head(todo)
    OBVIOUS
  <2>3. h \in EndsOf(loops[m]) /\ b \in EndsOf(loops[l])
    BY <2>1, <2>2 DEF EndsOf
  <2>4. /\ EndsOf(loops[m]) \subseteq In(loops[m]) /\ In(loops[l]) \subseteq Reachable(succ)
        /\ \A c \in In(loops[l]) : Dominates(succ, loops[l].header, c)
        /\ EndsOf(loops[m]) \cap EndsOf(loops[l]) = {}
    <3>1. l \in F /\ m \in F /\ m # l
      BY <1>1
    <3> QED
      BY <1>2, <1>3, <3>1, StructuredLoops
  <2>5. h # b
    BY <2>3, <2>4
  <2>6. b \in StrictDominators(succ, h) /\ h \in Reachable(succ)
    <3>1. h \in In(loops[l]) /\ Dominates(succ, b, h)
      BY <1>4, <2>2, <2>3, <2>4
    <3>2. b \in Reachable(succ)
      BY <1>1, <1>2, <1>3, <2>3, <2>4, StructuredLoops
    <3> QED
      BY <2>4, <2>5, <3>1, <3>2 DEF StrictDominators
  <2>7. h \notin Range(todo)
    BY <1>2, <1>3, <2>2, <2>6, TailInOrder
  <2>8. loop[h] = m
    BY <1>3, <2>3 DEF Innermost
  <2>9. IsLoopHeader(h)
    BY <1>1, <1>2, <2>1, <2>8 DEF IsLoopHeader, Null
  <2> QED
    BY <2>6, <2>7, <2>8, <2>9 DEF LoopInv, HeadersCollected
<1> QED
  BY <1>1, <1>4 DEF InnerFirst

\* One block of PopulateLoops.
LEMMA PopulateTree ==
  ASSUME LoopInv, TreeInv, PopulateLoops
  PROVE  TreeInv'
<1>1. /\ succ \in Cfgs /\ todo \in Seq(Block) /\ todo # <<>> /\ loops \in Seq(Loop) /\ root = Null /\ pc = "populate"
      /\ Typed /\ Owned(loops) /\ LoopsExist(loops, loop, root)
      /\ \A l \in Found(loops, root) : loops[l].header \in Range(todo) => loops[l].blocks = <<>>
  <2>1. pc = "populate" /\ todo # <<>>
    BY DEF PopulateLoops
  <2> QED
    BY <2>1 DEF LoopInv, Typed, Phase
<1>2. succ' = succ /\ todo' = Tail(todo) /\ root' = Null /\ pc' = "populate"
  BY <1>1 DEF PopulateLoops
<1>3. PICK F : F = DOMAIN loops
  OBVIOUS
<1>4. Found(loops, root) = F /\ Null \notin F
  <2>1. DOMAIN loops = 1 .. Len(loops) /\ Len(loops) \in Nat
    BY <1>1
  <2> QED
    BY <1>1, <1>3, <2>1 DEF Found, Null
<1>5. Matched(loops, F) /\ InOrder(todo) /\ (Structured => Innermost(loops, loop, F) /\ Hanging(loops, F, Null))
  BY <1>1, <1>4 DEF TreeInv, TreeAt
<1>6. PICK ls : ls = loops'
  OBVIOUS
<1>7. PICK lp : lp = loop'
  OBVIOUS
<1>8. PICK q : q = Tail(todo)
  OBVIOUS
<1>9. InOrder(q)
  BY <1>1, <1>5, <1>8, TailInOrder
<1>10. PICK none : none = Null
  OBVIOUS
<1>11. PICK phase : phase = "populate"
  OBVIOUS
<1>12. PICK b : b = Head(todo)
  OBVIOUS
<1>13. b \in Block /\ b \in Range(todo)
  BY <1>1, <1>12, TailRange DEF Range
<1>14. DOMAIN ls = F /\ Matched(ls, F) /\ (Structured => Innermost(ls, lp, F) /\ Hanging(ls, F, Null))
  <2>1. CASE ~IsLoopHeader(b)
    <3>1. ls = loops /\ lp = loop
      BY <1>6, <1>7, <1>12, <2>1 DEF PopulateLoops
    <3> QED
      BY <1>3, <1>5, <3>1
  <2>2. CASE IsLoopHeader(b)
    <3>1. PICK l : l = loop[b]
      OBVIOUS
    <3>2. l \in F /\ loops[l].header = b
      <4>1. l # 0 /\ l \in Nat /\ l <= Len(loops) /\ Len(loops) \in Nat /\ DOMAIN loops = 1 .. Len(loops)
        BY <1>1, <1>13, <2>2, <3>1 DEF IsLoopHeader, Null, LoopsExist, Typed
      <4> QED
        BY <1>3, <2>2, <3>1, <4>1 DEF IsLoopHeader
    <3>3. loops[l].blocks = <<>> /\ IsBackEdge(loops[l])
      BY <1>1, <1>4, <1>13, <3>2 DEF LoopInv
    <3>4. Populate(b) /\ \A c \in Block : loop[c] <= Len(loops)
      BY <1>1, <1>12, <2>2 DEF PopulateLoops, LoopsExist
    <3>5. PICK S : S = In(loops[l])
      OBVIOUS
    <3>6. S = NaturalLoop(succ, loops[l].source, b) /\ EndsOf(loops[l]) = {loops[l].source, b}
      BY <3>2, <3>5 DEF In, EndsOf
    <3>7. /\ SameLoops(loops, ls, l) /\ Body(succ, ls[l])
          /\ \A c \in Block : lp[c] = IF loop[c] = Null /\ c \in S /\ c \notin EndsOf(loops[l]) THEN l ELSE loop[c]
          /\ Hung(loops, ls, l, Taken(loops, l, S))
      BY <1>1, <1>6, <1>7, <1>13, <2>2, <3>1, <3>3, <3>4, <3>6, PopulateFacts
    <3>8. Collecting(loops, ls, l)
      BY <1>3, <3>2, <3>3, <3>7 DEF Collecting, Body
    <3>9. Renamed(loops, loop, lp, l)
      BY <3>5, <3>7 DEF Renamed
    <3>10. Hung(loops, ls, l, Hooked(loops, loop, l))
      BY <3>5, <3>7 DEF Hooked, Taken
    <3>11. DOMAIN ls = F /\ \A m \in F : EdgeOf(ls[m]) = EdgeOf(loops[m])
      BY <1>3, <3>7 DEF SameLoops, EdgeOf
    <3>12. Matched(ls, F)
      BY <1>5, <3>11 DEF Matched
    <3>13. ASSUME Structured PROVE Innermost(ls, lp, F) /\ Hanging(ls, F, Null)
      <4>1. InnerFirst(loops, F, l)
        BY <1>1, <1>3, <1>12, <3>2, <3>13, NextIsInnermost
      <4>2. Innermost(loops, loop, F) /\ Hanging(loops, F, Null)
        BY <1>5, <3>13
      <4>3. Innermost(ls, lp, F)
        BY <1>1, <1>3, <1>4, <1>5, <3>2, <3>8, <3>9, <3>13, <4>1, <4>2, InnermostGrows
      <4>4. Hanging(ls, F, Null)
        BY <1>1, <1>3, <1>4, <1>5, <3>2, <3>8, <3>10, <3>13, <4>1, <4>2, HangingGrows
      <4> QED
        BY <4>3, <4>4
    <3> QED
      BY <3>11, <3>12, <3>13
  <2> QED
    BY <2>1, <2>2
<1>15. Found(ls, none) = F
  BY <1>4, <1>10, <1>14 DEF Found
<1>16. TreeAt(ls, lp, q, none, phase)
  BY <1>9, <1>10, <1>11, <1>14, <1>15 DEF TreeAt
<1> QED
  BY <1>2, <1>6, <1>7, <1>8, <1>10, <1>11, <1>16, TreeNext

\* When BuildLoopTree starts, the blocks of all loops were collected and nothing is under the root.
LEMMA NewRootTree ==
  ASSUME LoopInv, TreeInv, NewRoot
  PROVE  TreeInv'
<1>1. succ \in Cfgs /\ loops \in Seq(Loop) /\ root = Null /\ pc = "populate" /\ todo = <<>>
  BY DEF LoopInv, Typed, Phase, NewRoot
<1>2. PICK n \in Nat : n = Len(loops)
  BY <1>1
<1>3. PICK new : new = NewLoop(Null, Null)
  OBVIOUS
<1>4. new \in Loop /\ Range(new.blocks) = {}
  BY <1>3 DEF NewLoop, Loop, Null, Range
<1>5. PICK ls : ls = loops'
  OBVIOUS
<1>6. PICK F : F = 1 .. n
  OBVIOUS
<1>7. DOMAIN loops = F /\ DOMAIN ls = 1 .. n + 1 /\ ls[n + 1] = new /\ \A k \in F : ls[k] = loops[k]
  <2>1. ls = Append(loops, new)
    BY <1>3, <1>5 DEF NewRoot
  <2> QED
    BY <1>1, <1>2, <1>4, <1>6, <2>1
<1>8. PICK r : r = n + 1
  OBVIOUS
<1>9. Found(ls, r) = F /\ Found(loops, root) = F /\ r \notin F /\ Null \notin F /\ r # Null
  <2>1. 1 .. n = (1 .. n + 1) \ {n + 1} /\ 0 \notin 1 .. n /\ n + 1 \notin 1 .. n /\ n + 1 # 0
    BY <1>2
  <2> QED
    BY <1>1, <1>6, <1>7, <1>8, <2>1 DEF Found, Null
<1>10. Matched(loops, F) /\ (Structured => Innermost(loops, loop, F) /\ Hanging(loops, F, Null))
  BY <1>1, <1>9 DEF TreeInv, TreeAt
<1>11. \A m \in F : EdgeOf(ls[m]) = EdgeOf(loops[m]) /\ EndsOf(ls[m]) = EndsOf(loops[m]) /\ In(ls[m]) = In(loops[m])
                    /\ ls[m].outer = loops[m].outer /\ ls[m].inner = loops[m].inner /\ ls[m].blocks = loops[m].blocks
  BY <1>7
<1>12. Matched(ls, F)
  BY <1>10, <1>11 DEF Matched
<1>13. ASSUME Structured, NEW l \in F PROVE ls[l].blocks # <<>>
  <2>1. PICK h : h = loops[l].header
    OBVIOUS
  <2>2. h \in EndsOf(loops[l])
    BY <2>1 DEF EndsOf
  <2>3. h \in Reachable(succ)
    BY <1>1, <1>10, <1>13, <2>2, StructuredLoops
  <2>4. loop[h] = l
    BY <1>10, <1>13, <2>2 DEF Innermost
  <2>5. IsLoopHeader(h)
    BY <1>9, <1>13, <2>1, <2>4 DEF IsLoopHeader
  <2>6. h \notin Range(todo)
    BY <1>1 DEF Range
  <2> QED
    BY <1>1, <1>7, <2>3, <2>4, <2>5, <2>6 DEF LoopInv, HeadersCollected
<1>14. PICK lp : lp = loop
  OBVIOUS
<1>15. ASSUME Structured PROVE Innermost(ls, lp, F)
  BY <1>10, <1>11, <1>14, <1>15 DEF Innermost
<1>16. ASSUME Structured, NEW m \in F
       PROVE  ls[m].outer # r /\ (ls[m].outer # Null => m \in Range(ls[ls[m].outer].inner) /\ Around(ls, F, m, ls[m].outer))
  <2>1. CASE loops[m].outer = Null
    BY <1>9, <1>11, <2>1
  <2>2. CASE loops[m].outer # Null
    <3>1. PICK o : o = loops[m].outer
      OBVIOUS
    <3>2. m \in Range(loops[o].inner) /\ Around(loops, F, m, o)
      BY <1>10, <1>16, <2>2, <3>1 DEF Hanging
    <3>3. o \in F
      BY <3>2 DEF Around
    <3>4. m \in Range(ls[o].inner) /\ Around(ls, F, m, o)
      BY <1>11, <3>2, <3>3 DEF Around
    <3> QED
      BY <1>9, <1>11, <3>1, <3>3, <3>4
  <2> QED
    BY <2>1, <2>2
<1>17. ASSUME Structured PROVE Hanging(ls, F, r)
  <2>1. \A k \in F : ls[k].blocks # <<>> => \A m \in F \ {k} : In(ls[m]) \subseteq In(ls[k]) => ls[m].outer # Null
    BY <1>10, <1>11, <1>17 DEF Hanging
  <2> QED
    BY <1>16, <1>17, <2>1 DEF Hanging
<1>18. PICK q : q = todo'
  OBVIOUS
<1>19. Block \subseteq Range(q)
  <2>1. q = [i \in 1 .. N |-> i]
    BY <1>18 DEF NewRoot
  <2> QED
    BY <2>1 DEF Range, Block
<1>20. ASSUME Structured PROVE UnderRoot(ls, lp, F, r, Range(q))
  <2>1. \A m \in F : ls[m].outer # r
    BY <1>16, <1>20
  <2>2. Range(ls[r].blocks) = {}
    BY <1>4, <1>7, <1>8
  <2> QED
    BY <1>19, <2>1, <2>2 DEF UnderRoot
<1>21. PICK phase : phase = "tree"
  OBVIOUS
<1>22. TreeAt(ls, lp, q, r, phase)
  BY <1>9, <1>12, <1>13, <1>15, <1>17, <1>20, <1>21 DEF TreeAt
<1>23. succ' = succ /\ lp = loop' /\ r = root' /\ phase = pc'
  BY <1>2, <1>8, <1>14, <1>21 DEF NewRoot
<1> QED
  BY <1>5, <1>18, <1>22, <1>23, TreeNext

\* In a structured graph the blocks of a loop that hangs nowhere lead to no other such loop.
LEMMA TopLoopAlone ==
  ASSUME LoopInv, TreeInv, Structured, pc = "tree", NEW l \in Found(loops, root), loops[l].outer = Null
  PROVE  TopLoops(l) = {l}
<1>1. PICK F : F = Found(loops, root)
  OBVIOUS
<1>2. Innermost(loops, loop, F) /\ Hanging(loops, F, root) /\ loops[l].blocks # <<>> /\ Matched(loops, F) /\ succ \in Cfgs
  BY <1>1 DEF TreeInv, TreeAt, LoopInv, Typed
<1>3. Range(loops[l].blocks) = In(loops[l]) /\ In(loops[l]) \subseteq Block
  <2>1. Body(succ, loops[l])
    BY <1>2 DEF LoopInv
  <2> QED
    BY <1>1, <1>2, <2>1, StructuredLoops DEF Body, In
<1>4. ASSUME NEW b \in In(loops[l]), loops[loop[b]].outer = Null PROVE loop[b] = l
  <2>1. PICK m : m = loop[b]
    OBVIOUS
  <2>2. m # Null /\ m \in F /\ In(loops[m]) \subseteq In(loops[l])
    BY <1>1, <1>2, <1>3, <2>1 DEF Innermost
  <2> QED
    BY <1>1, <1>2, <1>4, <2>1, <2>2 DEF Hanging
<1> QED
  BY <1>3, <1>4 DEF TopLoops

\* One block of BuildLoopTree.
LEMMA BuildTree ==
  ASSUME LoopInv, TreeInv, BuildLoopTree
  PROVE  TreeInv'
<1>1. /\ succ \in Cfgs /\ todo \in Seq(Block) /\ todo # <<>> /\ loops \in Seq(Loop) /\ pc = "tree"
      /\ LoopsExist(loops, loop, root) /\ root = Len(loops) /\ root # Null /\ loop \in [Block -> Nat]
  <2>1. pc = "tree" /\ todo # <<>>
    BY DEF BuildLoopTree
  <2> QED
    BY <2>1 DEF LoopInv, Typed, Phase
<1>2. PICK b : b = Head(todo)
  OBVIOUS
<1>3. PICK q : q = Tail(todo)
  OBVIOUS
<1>4. b \in Block /\ \A c \in Range(todo) : c = b \/ c \in Range(q)
  <2>1. b \in Range(todo) /\ \A c \in Range(todo) : c = b \/ c \in Range(q)
    BY <1>1, <1>2, <1>3, TailRange
  <2>2. Range(todo) \subseteq Block
    BY <1>1 DEF Range
  <2> QED
    BY <2>1, <2>2
<1>5. PICK ls : ls = loops'
  OBVIOUS
<1>6. SameLoops(loops, ls, root) /\ Built(loops, ls, b)
  BY <1>2, <1>5, TreeFacts
<1>7. PICK F : F = Found(loops, root)
  OBVIOUS
<1>8. F = DOMAIN loops \ {root} /\ root \in DOMAIN loops /\ Null \notin F
  <2>1. DOMAIN loops = 1 .. Len(loops) /\ Len(loops) \in Nat
    BY <1>1
  <2> QED
    BY <1>1, <1>7, <2>1 DEF Found, Null
<1>9. Found(ls, root) = F
  BY <1>6, <1>7 DEF Found, SameLoops
<1>10. \A m \in F : EdgeOf(ls[m]) = EdgeOf(loops[m]) /\ EndsOf(ls[m]) = EndsOf(loops[m]) /\ In(ls[m]) = In(loops[m])
                    /\ ls[m].blocks = loops[m].blocks
  BY <1>6, <1>8 DEF SameLoops, EdgeOf, EndsOf, In
<1>11. PICK T : T = Grafted(b)
  OBVIOUS
<1>12. PICK l : l = loop[b]
  OBVIOUS
<1>13. /\ \A m \in F : ls[m].outer = IF m \in T THEN root ELSE loops[m].outer
       /\ \A m \in F : Range(ls[m].inner) = Range(loops[m].inner)
       /\ Range(ls[root].inner) = IF T # {} THEN Range(loops[root].inner) \cup {l} ELSE Range(loops[root].inner)
       /\ Range(ls[root].blocks) = IF l = Null THEN Range(loops[root].blocks) \cup {b} ELSE Range(loops[root].blocks)
  BY <1>6, <1>8, <1>11, <1>12 DEF Built
<1>14. PICK lp : lp = loop
  OBVIOUS
<1>15. Matched(loops, F) /\ (Structured => /\ Innermost(loops, lp, F) /\ Hanging(loops, F, root)
                                          /\ (\A m \in F : loops[m].blocks # <<>>)
                                          /\ UnderRoot(loops, lp, F, root, Range(todo)))
  BY <1>1, <1>7, <1>14 DEF TreeInv, TreeAt
<1>16. Matched(ls, F)
  BY <1>10, <1>15 DEF Matched
<1>17. l # Null => l \in F
  <2>1. l \in Nat /\ l <= Len(loops) /\ (l # Null => l # root) /\ DOMAIN loops = 1 .. Len(loops)
    BY <1>1, <1>4, <1>12 DEF LoopsExist
  <2> QED
    BY <1>8, <2>1 DEF Null
<1>18. ASSUME Structured, T # {} PROVE T = {l} /\ l \in F /\ loops[l].outer = Null
  <2>1. T = TopLoops(l) /\ l # Null /\ loops[l].outer = Null
    BY <1>11, <1>12, <1>18 DEF Grafted
  <2> QED
    BY <1>1, <1>7, <1>17, <1>18, <2>1, TopLoopAlone
<1>19. ASSUME T = {}, l # Null PROVE loops[l].outer # Null
  BY <1>11, <1>12, <1>19 DEF Grafted, TopLoops
<1>20. ASSUME Structured PROVE Innermost(ls, lp, F) /\ \A m \in F : ls[m].blocks # <<>>
  BY <1>10, <1>15, <1>20 DEF Innermost
<1>21. ASSUME Structured PROVE Hanging(ls, F, root)
  <2>1. ASSUME NEW m \in F, ls[m].outer \notin {Null, root}
        PROVE  m \in Range(ls[ls[m].outer].inner) /\ Around(ls, F, m, ls[m].outer)
    <3>1. PICK o : o = loops[m].outer
      OBVIOUS
    <3>2. ls[m].outer = o /\ o \notin {Null, root}
      BY <1>13, <2>1, <3>1
    <3>3. m \in Range(loops[o].inner) /\ Around(loops, F, m, o)
      BY <1>15, <1>21, <3>1, <3>2 DEF Hanging
    <3>4. o \in F
      BY <3>3 DEF Around
    <3>5. m \in Range(ls[o].inner) /\ Around(ls, F, m, o)
      BY <1>10, <1>13, <3>3, <3>4 DEF Around
    <3> QED
      BY <3>2, <3>5
  <2>2. ASSUME NEW k \in F, NEW m \in F \ {k}, In(ls[m]) \subseteq In(ls[k]) PROVE ls[m].outer # Null
    <3>1. loops[m].outer # Null
      BY <1>10, <1>15, <1>21, <2>2 DEF Hanging
    <3> QED
      BY <1>1, <1>13, <3>1
  <2> QED
    BY <2>1, <2>2 DEF Hanging
<1>22. ASSUME Structured PROVE UnderRoot(ls, lp, F, root, Range(q))
  <2>1. /\ \A m \in F : loops[m].outer = root =>
             m \in Range(loops[root].inner) /\ \A k \in F \ {m} : ~(In(loops[m]) \subseteq In(loops[k]))
        /\ Range(loops[root].blocks) \subseteq {c \in Block : lp[c] = Null}
        /\ \A c \in Block \ Range(todo) : IF lp[c] = Null THEN c \in Range(loops[root].blocks) ELSE loops[lp[c]].outer # Null
    BY <1>15, <1>22 DEF UnderRoot
  <2>2. ASSUME NEW m \in F, ls[m].outer = root
        PROVE  m \in Range(ls[root].inner) /\ \A k \in F \ {m} : ~(In(ls[m]) \subseteq In(ls[k]))
    <3>1. CASE m \in T
      <4>1. m = l /\ loops[l].outer = Null /\ T # {}
        BY <1>18, <1>22, <3>1
      <4>2. \A k \in F \ {m} : ~(In(loops[m]) \subseteq In(loops[k]))
        BY <1>15, <1>22, <4>1 DEF Hanging
      <4> QED
        BY <1>10, <1>13, <4>1, <4>2
    <3>2. CASE m \notin T
      <4>1. loops[m].outer = root
        BY <1>13, <2>2, <3>2
      <4> QED
        BY <1>10, <1>13, <2>1, <4>1
    <3> QED
      BY <3>1, <3>2
  <2>3. Range(ls[root].blocks) \subseteq {c \in Block : lp[c] = Null}
    BY <1>4, <1>12, <1>13, <1>14, <2>1
  <2>4. ASSUME NEW c \in Block \ Range(q), lp[c] = Null PROVE c \in Range(ls[root].blocks)
    BY <1>4, <1>12, <1>13, <1>14, <2>1, <2>4
  <2>5. ASSUME NEW c \in Block \ Range(q), lp[c] # Null PROVE ls[lp[c]].outer # Null
    <3>1. PICK m : m = lp[c]
      OBVIOUS
    <3>2. m \in F
      BY <1>15, <1>22, <2>5, <3>1 DEF Innermost
    <3>3. CASE c = b
      <4>1. m = l
        BY <1>12, <1>14, <3>1, <3>3
      <4> QED
        BY <1>1, <1>13, <1>18, <1>19, <1>22, <2>5, <3>1, <3>2, <4>1
    <3>4. CASE c # b
      <4>1. loops[m].outer # Null
        BY <1>4, <2>1, <2>5, <3>1, <3>4
      <4> QED
        BY <1>1, <1>13, <3>1, <3>2, <4>1
    <3> QED
      BY <3>3, <3>4
  <2> QED
    BY <2>2, <2>3, <2>4, <2>5 DEF UnderRoot
<1>23. PICK phase : phase = "tree"
  OBVIOUS
<1>24. PICK r : r = root
  OBVIOUS
<1>25. TreeAt(ls, lp, q, r, phase)
  BY <1>9, <1>16, <1>20, <1>21, <1>22, <1>23, <1>24 DEF TreeAt
<1>26. succ' = succ /\ lp = loop' /\ r = root' /\ phase = pc' /\ q = todo'
  BY <1>1, <1>3, <1>14, <1>23, <1>24 DEF BuildLoopTree
<1> QED
  BY <1>5, <1>25, <1>26, TreeNext

LEMMA SetRootTree ==
  ASSUME TreeInv, SetRootLoop
  PROVE  TreeInv'
<1>1. PICK ls : ls = loops
  OBVIOUS
<1>2. PICK lp : lp = loop
  OBVIOUS
<1>3. PICK q : q = todo
  OBVIOUS
<1>4. PICK r : r = root
  OBVIOUS
<1>5. PICK phase : phase = "done"
  OBVIOUS
<1>6. TreeAt(ls, lp, q, r, phase)
  BY <1>1, <1>2, <1>3, <1>4, <1>5 DEF TreeInv, TreeAt, SetRootLoop
<1> QED
  BY <1>1, <1>2, <1>3, <1>4, <1>5, <1>6, TreeNext DEF SetRootLoop

LEMMA StutterTree ==
  ASSUME TreeInv, UNCHANGED vars
  PROVE  TreeInv'
<1>1. PICK ls : ls = loops
  OBVIOUS
<1>2. PICK lp : lp = loop
  OBVIOUS
<1>3. PICK q : q = todo
  OBVIOUS
<1>4. PICK r : r = root
  OBVIOUS
<1>5. PICK phase : phase = pc
  OBVIOUS
<1>6. TreeAt(ls, lp, q, r, phase)
  BY <1>1, <1>2, <1>3, <1>4, <1>5 DEF TreeInv
<1> QED
  BY <1>1, <1>2, <1>3, <1>4, <1>5, <1>6, TreeNext DEF vars

\* Every step keeps the tree.
THEOREM TreeInvariant == Spec => []TreeInv
<1>1. Init => TreeInv
  BY DEF Init, TreeInv, TreeAt
<1>2. LoopInv /\ TreeInv /\ [Next]_vars => TreeInv'
  BY CollectTree, PopulateTree, NewRootTree, BuildTree, SetRootTree, StutterTree DEF Next, Terminated
<1> QED
  BY Invariant, <1>1, <1>2, PTL DEF Spec

\* Of every back edge there is exactly one loop, in every graph.
THEOREM LoopPerBackEdge ==
  Spec => [](pc = "done" => /\ {EdgeOf(loops[l]) : l \in Found(loops, root)} = BackEdges
                            /\ \A l, m \in Found(loops, root) : EdgeOf(loops[l]) = EdgeOf(loops[m]) => l = m)
<1>1. TreeInv => (pc = "done" => /\ {EdgeOf(loops[l]) : l \in Found(loops, root)} = BackEdges
                                 /\ \A l, m \in Found(loops, root) : EdgeOf(loops[l]) = EdgeOf(loops[m]) => l = m)
  BY DEF TreeInv, TreeAt, Matched
<1> QED
  BY TreeInvariant, <1>1, PTL

\* In a structured graph the loops hang under the least loop around them, the
\* outermost ones under the root, and every block knows the innermost loop around it.
THEOREM LoopTreeIsInclusion == Spec => []StructuredTree
<1>1. ASSUME LoopInv, TreeInv, pc = "done", Structured PROVE TreeIsInclusion
  <2>1. PICK F : F = Found(loops, root)
    OBVIOUS
  <2>2. PICK r : r = root
    OBVIOUS
  <2>3. /\ succ \in Cfgs /\ Matched(loops, F) /\ Innermost(loops, loop, F) /\ Hanging(loops, F, r)
        /\ (\A l \in F : loops[l].blocks # <<>>) /\ UnderRoot(loops, loop, F, r, {}) /\ r # Null
    <3>1. Range(todo) = {}
      BY <1>1 DEF TreeInv, TreeAt, Range
    <3> QED
      BY <1>1, <2>1, <2>2, <3>1 DEF TreeInv, TreeAt, LoopInv, Typed, Phase
  <2>4. Bodies = F
    BY <2>1, <2>3 DEF Bodies, Found
  <2>5. \A l \in F : BodyOf(l) = In(loops[l])
    <3>1. \A l \in F : Body(succ, loops[l])
      BY <1>1, <2>1, <2>3 DEF LoopInv
    <3> QED
      BY <3>1 DEF Body, BodyOf, In
  <2>6. \A l \in F : \A m \in F : BodyOf(l) = BodyOf(m) => l = m
    BY <1>1, <2>3, <2>5, StructuredLoops
  <2>7. ASSUME NEW S, S \subseteq F, NEW o \in S, \A k \in S : BodyOf(o) \subseteq BodyOf(k)
        PROVE  (CHOOSE m \in S : \A k \in S : BodyOf(m) \subseteq BodyOf(k)) = o
    <3>1. PICK p : p = CHOOSE m \in S : \A k \in S : BodyOf(m) \subseteq BodyOf(k)
      OBVIOUS
    <3>2. p \in S /\ \A k \in S : BodyOf(p) \subseteq BodyOf(k)
      BY <2>7, <3>1
    <3>3. BodyOf(p) = BodyOf(o)
      BY <2>7, <3>2
    <3> QED
      BY <2>6, <2>7, <3>1, <3>2, <3>3
  <2>8. ASSUME NEW l \in F
        PROVE  /\ l \in Range(loops[loops[l].outer].inner)
               /\ LET S == {m \in F \ {l} : BodyOf(l) \subseteq BodyOf(m)}
                  IN  loops[l].outer = IF S = {} THEN r ELSE CHOOSE m \in S : \A k \in S : BodyOf(m) \subseteq BodyOf(k)
    <3>1. PICK S : S = {m \in F \ {l} : BodyOf(l) \subseteq BodyOf(m)}
      OBVIOUS
    <3>2. S = {m \in F \ {l} : In(loops[l]) \subseteq In(loops[m])}
      BY <2>5, <3>1
    <3>3. PICK o : o = loops[l].outer
      OBVIOUS
    <3>4. o # Null
      <4>1. PICK h : h = loops[l].header
        OBVIOUS
      <4>2. h \in EndsOf(loops[l])
        BY <4>1 DEF EndsOf
      <4>3. h \in Block /\ loop[h] = l /\ h \in In(loops[l])
        BY <1>1, <2>3, <4>2, StructuredLoops DEF Innermost
      <4>4. loop[h] # Null
        BY <2>3, <4>3 DEF Innermost
      <4> QED
        BY <2>3, <3>3, <4>3, <4>4 DEF UnderRoot
    <3>5. CASE o = r
      <4>1. l \in Range(loops[o].inner) /\ S = {}
        BY <2>3, <3>2, <3>3, <3>5 DEF UnderRoot
      <4> QED
        BY <3>1, <3>3, <3>5, <4>1
    <3>6. CASE o # r
      <4>1. l \in Range(loops[o].inner) /\ Around(loops, F, l, o)
        BY <2>3, <3>3, <3>4, <3>6 DEF Hanging
      <4>2. o \in S /\ \A k \in S : BodyOf(o) \subseteq BodyOf(k)
        BY <2>5, <3>2, <4>1 DEF Around
      <4>3. S # {} /\ (CHOOSE m \in S : \A k \in S : BodyOf(m) \subseteq BodyOf(k)) = o
        BY <2>7, <3>1, <4>2
      <4> QED
        BY <3>1, <3>3, <4>1, <4>3
    <3> QED
      BY <3>5, <3>6
  <2>9. ASSUME NEW b \in Block
        PROVE  LET S == {m \in F : b \in BodyOf(m)}
               IN  /\ loop[b] = IF S = {} THEN Null
                                ELSE IF S = {} THEN r ELSE CHOOSE m \in S : \A k \in S : BodyOf(m) \subseteq BodyOf(k)
                   /\ b \in Range(loops[r].blocks) <=> S = {}
    <3>1. PICK S : S = {m \in F : b \in BodyOf(m)}
      OBVIOUS
    <3>2. S = {m \in F : b \in In(loops[m])}
      BY <2>5, <3>1
    <3>3. CASE loop[b] = Null
      <4>1. S = {}
        BY <2>3, <3>2, <3>3 DEF Innermost
      <4>2. b \in Range(loops[r].blocks)
        BY <2>3, <3>3 DEF UnderRoot
      <4> QED
        BY <3>1, <3>3, <4>1, <4>2
    <3>4. CASE loop[b] # Null
      <4>1. PICK o : o = loop[b]
        OBVIOUS
      <4>2. o \in S /\ \A k \in S : BodyOf(o) \subseteq BodyOf(k)
        BY <2>3, <2>5, <3>2, <3>4, <4>1 DEF Innermost
      <4>3. S # {} /\ (CHOOSE m \in S : \A k \in S : BodyOf(m) \subseteq BodyOf(k)) = o
        BY <2>7, <3>1, <4>2
      <4>4. b \notin Range(loops[r].blocks)
        BY <2>3, <3>4 DEF UnderRoot
      <4> QED
        BY <3>1, <4>1, <4>3, <4>4
    <3> QED
      BY <3>3, <3>4
  <2>10. Range(loops[r].blocks) \subseteq Block
    BY <2>3 DEF UnderRoot
  <2>11. \A l \in Bodies : LET around == {m \in Bodies \ {l} : BodyOf(l) \subseteq BodyOf(m)}
                           IN  /\ loops[l].outer = IF around = {} THEN root
                                                   ELSE CHOOSE m \in around : \A k \in around : BodyOf(m) \subseteq BodyOf(k)
                               /\ l \in Range(loops[loops[l].outer].inner)
    BY <2>2, <2>4, <2>8
  <2>12. Range(loops[root].blocks) = {b \in Block : {m \in Bodies : b \in BodyOf(m)} = {}}
    BY <2>2, <2>4, <2>9, <2>10
  <2>13. \A b \in Block : LET S == {m \in Bodies : b \in BodyOf(m)}
                          IN  loop[b] = IF S = {} THEN Null
                                        ELSE IF S = {} THEN root
                                        ELSE CHOOSE m \in S : \A k \in S : BodyOf(m) \subseteq BodyOf(k)
    BY <2>2, <2>4, <2>9
  <2> QED
    BY <2>11, <2>12, <2>13 DEF TreeIsInclusion
<1>2. ASSUME LoopInv, TreeInv, pc = "done", Structured PROVE {<<loops[l].source, loops[l].header>> : l \in Bodies} = BackEdges
  <2>1. Bodies = Found(loops, root)
    BY <1>2 DEF TreeInv, TreeAt, Bodies, Found
  <2> QED
    BY <1>2, <2>1 DEF TreeInv, TreeAt, Matched, EdgeOf
<1>3. LoopInv /\ TreeInv => StructuredTree
  BY <1>1, <1>2 DEF StructuredTree
<1> QED
  BY Invariant, TreeInvariant, <1>3, PTL
=============================================================================
