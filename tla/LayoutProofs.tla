---------------------------- MODULE LayoutProofs ----------------------------
(***************************************************************************)
(* Theorems about the linear order of the blocks and about the liveness    *)
(* analysis that uses it, for every graph and every program.               *)
(***************************************************************************)
EXTENDS Liveness, LoopAnalyzerProofs

(***************************************************************************)
(* Inverting a condition swaps two successors and changes nothing else.    *)
(***************************************************************************)
\* The same edges, perhaps in another order.
SameEdges(g, h) == \A b \in Block : SuccSet(g, b) = SuccSet(h, b) /\ Len(g[b]) = Len(h[b])

LEMMA SameReach ==
  ASSUME NEW g, NEW h, SameEdges(g, h)
  PROVE  Reachable(g) = Reachable(h)
<1>1. Root \in Block
  BY SizeAssumption DEF Root, Block
<1>2. ASSUME NEW S \in SUBSET Block PROVE Closed(g, Block, Root, S) <=> Closed(h, Block, Root, S)
  BY DEF Closed, SameEdges
<1>3. PICK R, T : R = Reachable(g) /\ T = Reachable(h)
  OBVIOUS
<1>4. /\ R \in SUBSET Block /\ Closed(g, Block, Root, R)
      /\ T \in SUBSET Block /\ Closed(h, Block, Root, T)
  BY <1>1, <1>3, ReachLeast DEF Reachable, Reach
<1>5. R \subseteq T /\ T \subseteq R
  BY <1>2, <1>3, <1>4, ReachOn DEF Reachable, Reach
<1> QED
  BY <1>3, <1>5

LEMMA ReverseFacts ==
  ASSUME NEW S, NEW q \in Seq(S)
  PROVE  /\ Reverse(q) \in Seq(S) /\ Range(Reverse(q)) = Range(q) /\ Len(Reverse(q)) = Len(q)
         /\ (IsInjective(q) => IsInjective(Reverse(q)))
         /\ q # <<>> => Reverse(q) # <<>> /\ Head(Reverse(q)) = Last(q)
<1>1. PICK n \in Nat : n = Len(q)
  OBVIOUS
<1>2. PICK r : r = Reverse(q)
  OBVIOUS
<1>3. DOMAIN q = 1 .. n /\ r = [i \in 1 .. n |-> q[(n - i) + 1]] /\ \A i \in 1 .. n : q[i] \in S
  BY <1>1, <1>2 DEF Reverse
<1>4. \A i \in 1 .. n : (n - i) + 1 \in 1 .. n /\ (n - ((n - i) + 1)) + 1 = i
  BY <1>1
<1>5. DOMAIN r = 1 .. n /\ \A i \in 1 .. n : r[i] = q[(n - i) + 1] /\ q[i] = r[(n - i) + 1]
  BY <1>3, <1>4
<1>6. r \in Seq(S) /\ Len(r) = n
  BY <1>1, <1>3, <1>4
<1>7. Range(r) = Range(q)
  <2>1. Range(r) = {r[i] : i \in 1 .. n} /\ Range(q) = {q[i] : i \in 1 .. n}
    BY <1>3, <1>5 DEF Range
  <2> QED
    BY <1>4, <1>5, <2>1
<1>8. ASSUME IsInjective(q) PROVE IsInjective(r)
  <2> SUFFICES ASSUME NEW i \in 1 .. n, NEW j \in 1 .. n, r[i] = r[j] PROVE i = j
    BY <1>5 DEF IsInjective
  <2>1. (n - i) + 1 = (n - j) + 1
    BY <1>3, <1>4, <1>5, <1>8 DEF IsInjective
  <2> QED
    BY <1>1, <2>1
<1>9. ASSUME q # <<>> PROVE r # <<>> /\ Head(r) = Last(q)
  <2>1. n # 0 /\ 1 \in 1 .. n /\ (n - 1) + 1 = n
    BY <1>1, <1>9, EmptySeq
  <2> QED
    BY <1>1, <1>5, <1>6, <2>1 DEF Last
<1> QED
  BY <1>1, <1>2, <1>6, <1>7, <1>8, <1>9

\* The graph h is g with the two successors of p swapped.
Swapped(g, p, h) == h = [g EXCEPT ![p] = Reverse(@)]

LEMMA SwapSuccs ==
  ASSUME NEW g \in Cfgs, NEW p \in Block, NEW h, Swapped(g, p, h)
  PROVE  /\ h \in Cfgs /\ SameEdges(g, h)
         /\ \A b \in Block \ {p} : h[b] = g[b]
         /\ Len(g[p]) = 2 => h[p][1] = g[p][2] /\ h[p][2] = g[p][1]
<1>1. PICK q \in Seq(Block) : q = g[p]
  BY SuccSeq
<1>2. q \in SuccLists /\ g \in [Block -> SuccLists] /\ NoParallelEdges(g)
  BY <1>1 DEF Cfgs
<1>3. PICK r : r = Reverse(q)
  OBVIOUS
<1>4. r \in Seq(Block) /\ Range(r) = Range(q) /\ Len(r) = Len(q) /\ (IsInjective(q) => IsInjective(r))
  BY <1>3, ReverseFacts
<1>5. r \in SuccLists /\ (Len(q) = 2 => r[1] = q[2] /\ r[2] = q[1])
  <2>1. r = [i \in 1 .. Len(q) |-> q[(Len(q) - i) + 1]]
    BY <1>3 DEF Reverse
  <2>2. CASE q = <<>>
    <3>1. Len(q) = 0 /\ Len(r) = 0
      BY <1>4, <2>2
    <3>2. r = <<>>
      BY <1>4, <3>1, EmptySeq
    <3> QED
      BY <3>1, <3>2 DEF SuccLists
  <2>3. CASE \E a \in Block : q = <<a>>
    <3>1. PICK a \in Block : q = <<a>>
      BY <2>3
    <3>2. Len(q) = 1 /\ r[1] = a
      BY <2>1, <3>1
    <3>3. r = <<a>>
      BY <1>4, <3>2
    <3> QED
      BY <3>2, <3>3 DEF SuccLists
  <2>4. CASE \E a, b \in Block : q = <<a, b>>
    <3>1. PICK a \in Block, b \in Block : q = <<a, b>>
      BY <2>4
    <3>2. Len(q) = 2 /\ r[1] = b /\ r[2] = a
      BY <2>1, <3>1
    <3>3. r = <<b, a>>
      BY <1>4, <3>2
    <3> QED
      BY <3>1, <3>2, <3>3 DEF SuccLists
  <2> QED
    BY <1>2, <2>2, <2>3, <2>4 DEF SuccLists
<1>7. h \in [Block -> SuccLists] /\ h[p] = r /\ \A b \in Block \ {p} : h[b] = g[b]
  BY <1>1, <1>2, <1>3, <1>5 DEF Swapped
<1>8. SameEdges(g, h)
  <2>1. ASSUME NEW b \in Block PROVE SuccSet(g, b) = SuccSet(h, b) /\ Len(g[b]) = Len(h[b])
    <3>1. CASE b = p
      <4>1. SuccSet(g, b) = Range(q) /\ SuccSet(h, b) = Range(r)
        BY <1>1, <1>7, <3>1 DEF SuccSet, Range
      <4> QED
        BY <1>1, <1>4, <1>7, <3>1, <4>1
    <3>2. CASE b # p
      BY <1>7, <3>2 DEF SuccSet
    <3> QED
      BY <3>1, <3>2
  <2> QED
    BY <2>1 DEF SameEdges
<1>9. NoParallelEdges(h)
  <2>1. IsInjective(q)
    BY <1>1, <1>2 DEF NoParallelEdges, IsInjective
  <2>2. \A j, k \in DOMAIN r : r[j] = r[k] => j = k
    BY <1>4, <2>1 DEF IsInjective
  <2> QED
    BY <1>2, <1>7, <2>2 DEF NoParallelEdges
<1> QED
  BY <1>1, <1>5, <1>7, <1>8, <1>9 DEF Cfgs

-----------------------------------------------------------------------------
(***************************************************************************)
(* The layout inside one step.                                             *)
(***************************************************************************)
\* What LoopAnalyzer leaves behind, as far as the layout relies on it.
LoopsReady ==
  /\ succ \in Cfgs /\ NoDeadEdges(succ)
  /\ loops \in Seq(Loop) /\ loop \in [Block -> Nat] /\ root \in Nat /\ LoopsExist(loops, loop, root)
  /\ \A l \in Found(loops, root) :
       loops[l].blocks # <<>> => Range(loops[l].blocks) \subseteq Reachable(succ) /\ Last(loops[l].blocks) = loops[l].header
  /\ \A b \in Reachable(succ) : IsLoopHeader(b) => loops[loop[b]].blocks # <<>>

\* Why the pass may read through a null pointer or before the start of the order.
CrashReason ==
  \E p \in Reachable(succ) : ends[p] = "cond" /\ \E b \in SuccSet(succ, p) : b = Root \/ ends[b] = "empty"

\* b comes directly after a in the list q.
NextTo(q, a, b) == \E i \in 1 .. Len(q) - 1 : q[i] = a /\ q[i + 1] = b

\* A block that was placed outside all loops comes directly after the branches
\* whose false successor it is in the graph g.
FalseFollows(g, q) ==
  \A p \in Reachable(succ) :
    LET f == FalseSucc(g, p)
    IN  Conditional(p) /\ loop[f] = Null /\ f \in Range(q) => NextTo(q, p, f)

\* The states of the layout inside one step.
LayoutKept ==
  {s \in LayoutState : /\ SameEdges(succ, s.succ)
                       /\ IsInjective(s.order) /\ Range(s.order) \subseteq Reachable(succ)
                       /\ (s.order # <<>> => Head(s.order) = Root)
                       /\ (s.status = "crash" => CrashReason)
                       /\ FalseFollows(s.succ, s.order)}

\* From s on nothing that was placed is moved, and no assertion is forgotten.
LaidSince(s) == {t \in LayoutKept : Range(s.order) \subseteq Range(t.order) /\ (Fine(t) => Fine(s))}

\* Only the entry can be placed first.
FirstIsRoot(s, b) == Fine(s) /\ s.order = <<>> => b = Root

LEMMA KeptFacts ==
  ASSUME NEW s \in LayoutKept
  PROVE  /\ s \in LayoutState /\ s.succ \in Cfgs /\ s.order \in Seq(Block)
         /\ SameEdges(succ, s.succ) /\ IsInjective(s.order) /\ Range(s.order) \subseteq Reachable(succ)
         /\ (s.order # <<>> => Head(s.order) = Root) /\ (s.status = "crash" => CrashReason)
         /\ FalseFollows(s.succ, s.order)
BY DEF LayoutKept, LayoutState

\* FixFalseBranchOrder for one predecessor keeps the type of the state.
LEMMA FixAfterType ==
  ASSUME NEW s \in LayoutState, NEW p \in Block, NEW b \in Block
  PROVE  FixAfter(s, p, b) \in LayoutState
<1>1. PICK h : h = [s.succ EXCEPT ![p] = Reverse(@)]
  OBVIOUS
<1>2. h \in Cfgs
  <2>1. s.succ \in Cfgs /\ Swapped(s.succ, p, h)
    BY <1>1 DEF LayoutState, Swapped
  <2> QED
    BY <2>1, SwapSuccs
<1>3. PICK i : i = IF p \in s.inverted THEN s.inverted \ {p} ELSE s.inverted \cup {p}
  OBVIOUS
<1>4. i \in SUBSET Block
  BY <1>3 DEF LayoutState
<1>5. [s EXCEPT !.succ[p] = Reverse(@), !.inverted = IF p \in @ THEN @ \ {p} ELSE @ \cup {p}]
        = [s EXCEPT !.succ = h, !.inverted = i]
  BY <1>1, <1>3 DEF LayoutState
<1>6. FixAfter(s, p, b) \in {s, Stop(s, "crash"), [s EXCEPT !.succ = h, !.inverted = i]}
  BY <1>5 DEF FixAfter
<1>7. Stop(s, "crash") \in LayoutState /\ [s EXCEPT !.succ = h, !.inverted = i] \in LayoutState
  BY <1>2, <1>4 DEF Stop, LayoutState
<1> QED
  BY <1>6, <1>7

\* A predecessor of a reachable block is reachable.
LEMMA PredsReachable ==
  ASSUME LoopsReady, NEW b \in Reachable(succ)
  PROVE  /\ b \in Block /\ Preds(succ, b) \in Seq(Block) /\ Range(Preds(succ, b)) \subseteq Reachable(succ)
         /\ \A p \in Block : p \in Range(Preds(succ, b)) <=> b \in SuccSet(succ, p)
<1>1. b \in Block /\ succ \in Cfgs
  BY ReachableFacts DEF LoopsReady
<1>2. PICK q : q = Preds(succ, b)
  OBVIOUS
<1>3. q \in Seq(Block) /\ Range(q) = {p \in Block : b \in SuccSet(succ, p)}
  BY <1>1, <1>2, PredsFacts
<1>4. ASSUME NEW p \in Range(q) PROVE p \in Reachable(succ)
  BY <1>3 DEF LoopsReady, NoDeadEdges
<1> QED
  BY <1>1, <1>2, <1>3, <1>4

\* One predecessor of a block of a loop.
LEMMA FixAfterKeeps ==
  ASSUME LoopsReady, NEW b \in Reachable(succ), loop[b] # Null, NEW p \in Range(Preds(succ, b)),
         NEW s \in LayoutKept, FirstIsRoot(s, b)
  PROVE  LET t == FixAfter(s, p, b) IN t \in LaidSince(s) /\ t.order = s.order
<1>1. /\ s \in LayoutState /\ s.succ \in Cfgs /\ s.order \in Seq(Block)
      /\ SameEdges(succ, s.succ) /\ IsInjective(s.order) /\ Range(s.order) \subseteq Reachable(succ)
      /\ (s.order # <<>> => Head(s.order) = Root) /\ (s.status = "crash" => CrashReason)
      /\ FalseFollows(s.succ, s.order)
  BY KeptFacts
<1>2. p \in Reachable(succ) /\ p \in Block /\ b \in SuccSet(succ, p) /\ b \in Block
  BY PredsReachable, ReachableFacts
<1>3. PICK t : t = FixAfter(s, p, b)
  OBVIOUS
<1>4. CASE t = s
  BY <1>3, <1>4 DEF LaidSince
<1>5. CASE Fine(s) /\ Conditional(p) /\ s.order = <<>> /\ t = Stop(s, "crash")
  <2>1. CrashReason
    BY <1>2, <1>5 DEF FirstIsRoot, CrashReason, Conditional
  <2>2. t \in LayoutState /\ t.succ = s.succ /\ t.order = s.order /\ t.status = "crash"
    BY <1>1, <1>5 DEF Stop, LayoutState
  <2>3. t \in LayoutKept
    BY <1>1, <2>1, <2>2 DEF LayoutKept
  <2> QED
    BY <1>3, <1>5, <2>2, <2>3 DEF LaidSince
<1>6. CASE Fine(s) /\ Conditional(p) /\ Inverts(s, p, b)
           /\ t = [s EXCEPT !.succ[p] = Reverse(@), !.inverted = IF p \in @ THEN @ \ {p} ELSE @ \cup {p}]
  <2>1. PICK h : h = [s.succ EXCEPT ![p] = Reverse(@)]
    OBVIOUS
  <2>2. t \in LayoutState /\ t.succ = h /\ t.order = s.order /\ t.status = s.status
    <3>1. t \in LayoutState
      BY <1>1, <1>2, <1>3, FixAfterType
    <3> QED
      BY <1>1, <1>6, <2>1, <3>1 DEF LayoutState
  <2>3. /\ SameEdges(s.succ, h) /\ \A c \in Block \ {p} : h[c] = s.succ[c]
        /\ Len(s.succ[p]) = 2 => h[p][1] = s.succ[p][2] /\ h[p][2] = s.succ[p][1]
    <3>1. PICK g \in Cfgs : g = s.succ
      BY <1>1
    <3>2. Swapped(g, p, h)
      BY <2>1, <3>1 DEF Swapped
    <3>3. /\ SameEdges(g, h) /\ \A c \in Block \ {p} : h[c] = g[c]
          /\ Len(g[p]) = 2 => h[p][1] = g[p][2] /\ h[p][2] = g[p][1]
      BY <1>2, <3>1, <3>2, SwapSuccs
    <3> QED
      BY <3>1, <3>3
  <2>4. SameEdges(succ, h)
    BY <1>1, <2>3 DEF SameEdges
  <2>5. FalseSucc(h, p) = b
    <3>1. Len(s.succ[p]) = 2 /\ s.succ[p][1] = b
      BY <1>1, <1>2, <1>6 DEF SameEdges, Conditional, Inverts, TrueSucc
    <3> QED
      BY <2>3, <3>1 DEF FalseSucc
  <2>6. ASSUME NEW c \in Reachable(succ), Conditional(c), loop[FalseSucc(h, c)] = Null, FalseSucc(h, c) \in Range(s.order)
        PROVE  NextTo(s.order, c, FalseSucc(h, c))
    <3>1. c # p /\ c \in Block
      BY <2>5, <2>6, ReachableFacts
    <3>2. FalseSucc(h, c) = FalseSucc(s.succ, c)
      BY <2>3, <3>1 DEF FalseSucc
    <3> QED
      BY <1>1, <2>6, <3>2 DEF FalseFollows
  <2>7. FalseFollows(t.succ, t.order)
    BY <2>2, <2>6 DEF FalseFollows
  <2>8. t \in LayoutKept
    BY <1>1, <2>2, <2>4, <2>7 DEF LayoutKept
  <2> QED
    BY <1>3, <2>2, <2>8 DEF LaidSince, Fine
<1> QED
  BY <1>3, <1>4, <1>5, <1>6 DEF FixAfter

\* All predecessors of a block of a loop.
LEMMA FixKeeps ==
  ASSUME LoopsReady, NEW b \in Reachable(succ), loop[b] # Null, NEW s \in LayoutKept, FirstIsRoot(s, b)
  PROVE  LET t == FixFalseBranchOrder(s, b) IN t \in LaidSince(s) /\ t.order = s.order
<1> DEFINE f == [t \in LayoutState |-> [p \in Block |-> FixAfter(t, p, b)]]
           P == {t \in LaidSince(s) : t.order = s.order}
<1>1. PICK q : q = Preds(succ, b)
  OBVIOUS
<1>2. b \in Block /\ q \in Seq(Block) /\ Range(q) \subseteq Block
  BY <1>1, PredsReachable, ReachableFacts
<1>3. Visitor(f, LayoutState, Block)
  BY <1>2, FixAfterType DEF Visitor
<1>4. P \in SUBSET LayoutState /\ s \in P
  BY DEF LaidSince, LayoutKept
<1>5. ASSUME NEW t \in P, NEW p \in Range(q) PROVE f[t][p] \in P
  <2>1. t \in LayoutKept /\ t \in LayoutState /\ t.order = s.order /\ (Fine(t) => Fine(s))
    BY <1>4 DEF LaidSince
  <2>2. FirstIsRoot(t, b)
    BY <2>1 DEF FirstIsRoot
  <2>3. PICK u : u = FixAfter(t, p, b)
    OBVIOUS
  <2>4. u \in LaidSince(t) /\ u.order = t.order
    BY <1>1, <2>1, <2>2, <2>3, FixAfterKeeps
  <2>5. u \in P
    BY <2>1, <2>4 DEF LaidSince
  <2>6. f[t][p] = u
    BY <1>2, <2>1, <2>3
  <2> QED
    BY <2>5, <2>6
<1>6. FixFalseBranchOrder(s, b) = EachOf(f, q, s)
  BY <1>1 DEF FixFalseBranchOrder
<1> HIDE DEF f, P
<1>7. EachOf(f, q, s) \in P
  BY <1>2, <1>3, <1>4, <1>5, EachOfKeeps
<1> QED
  BY <1>6, <1>7 DEF P

\* CheckFalseBranchOrder for one predecessor keeps the type of the state.
LEMMA CheckAfterType ==
  ASSUME NEW s \in LayoutState, NEW p \in Block, NEW b \in Block
  PROVE  CheckAfter(s, p, b) \in LayoutState
<1>1. CheckAfter(s, p, b) \in {s, Stop(s, "crash"), Stop(s, "misplaced"), Stop(s, "nojump")}
  BY DEF CheckAfter
<1>2. \A w \in {"crash", "misplaced", "nojump"} : Stop(s, w) \in LayoutState
  BY DEF Stop, LayoutState
<1> QED
  BY <1>1, <1>2

\* b comes directly after its branches, so far as p is one of them.
Checked(s, p, b) == Fine(s) /\ Conditional(p) /\ FalseSucc(s.succ, p) = b => Follows(s, p)

\* One predecessor of a block that belongs to no loop.
LEMMA CheckAfterKeeps ==
  ASSUME LoopsReady, NEW b \in Reachable(succ), NEW p \in Range(Preds(succ, b)), NEW s \in LayoutKept, FirstIsRoot(s, b)
  PROVE  LET t == CheckAfter(s, p, b)
         IN  t \in LaidSince(s) /\ t.order = s.order /\ t.succ = s.succ /\ Checked(t, p, b)
<1>1. /\ s \in LayoutState /\ s.succ \in Cfgs /\ s.order \in Seq(Block)
      /\ SameEdges(succ, s.succ) /\ IsInjective(s.order) /\ Range(s.order) \subseteq Reachable(succ)
      /\ (s.order # <<>> => Head(s.order) = Root) /\ (s.status = "crash" => CrashReason)
      /\ FalseFollows(s.succ, s.order)
  BY KeptFacts
<1>2. p \in Reachable(succ) /\ p \in Block /\ b \in SuccSet(succ, p) /\ b \in Block
  BY PredsReachable, ReachableFacts
<1>3. PICK t : t = CheckAfter(s, p, b)
  OBVIOUS
<1>4. CASE t = s /\ Checked(s, p, b)
  BY <1>3, <1>4 DEF LaidSince
<1>5. ASSUME NEW w \in {"crash", "misplaced", "nojump"}, t = Stop(s, w), w = "crash" => CrashReason
      PROVE  t \in LaidSince(s) /\ t.order = s.order /\ t.succ = s.succ /\ Checked(t, p, b)
  <2>1. t \in LayoutState /\ t.succ = s.succ /\ t.order = s.order /\ t.status = w
    BY <1>1, <1>5 DEF Stop, LayoutState
  <2>2. ~Fine(t)
    BY <2>1 DEF Fine
  <2>3. t \in LayoutKept
    BY <1>1, <1>5, <2>1 DEF LayoutKept
  <2> QED
    BY <2>1, <2>2, <2>3 DEF LaidSince, Checked
<1>6. CASE ~Fine(s) \/ ~Conditional(p) \/ FalseSucc(s.succ, p) # b
  <2>1. t = s
    BY <1>3, <1>6 DEF CheckAfter
  <2>2. Checked(s, p, b)
    BY <1>6 DEF Checked
  <2> QED
    BY <1>4, <2>1, <2>2
<1>7. CASE Fine(s) /\ Conditional(p) /\ FalseSucc(s.succ, p) = b
  <2>1. CASE s.order = <<>>
    <3>1. t = Stop(s, "crash")
      BY <1>3, <1>7, <2>1 DEF CheckAfter
    <3>2. CrashReason
      BY <1>2, <1>7, <2>1 DEF FirstIsRoot, CrashReason, Conditional
    <3> QED
      BY <1>3, <1>5, <3>1, <3>2
  <2>2. CASE s.order # <<>> /\ ~Follows(s, p)
    <3>1. t = Stop(s, "misplaced")
      BY <1>3, <1>7, <2>2 DEF CheckAfter
    <3> QED
      BY <1>3, <1>5, <3>1
  <2>3. CASE s.order # <<>> /\ Follows(s, p) /\ ends[b] = "empty"
    <3>1. t = Stop(s, "crash")
      BY <1>3, <1>7, <2>3 DEF CheckAfter
    <3>2. CrashReason
      BY <1>2, <1>7, <2>3 DEF CrashReason, Conditional
    <3> QED
      BY <1>3, <1>5, <3>1, <3>2
  <2>4. CASE s.order # <<>> /\ Follows(s, p) /\ ends[b] # "empty"
    <3>1. t = s \/ t = Stop(s, "nojump")
      BY <1>3, <1>7, <2>4 DEF CheckAfter
    <3>2. Checked(s, p, b)
      BY <2>4 DEF Checked
    <3> QED
      BY <1>3, <1>4, <1>5, <3>1, <3>2
  <2> QED
    BY <2>1, <2>2, <2>3, <2>4
<1> QED
  BY <1>6, <1>7

\* All predecessors of a block that belongs to no loop.
LEMMA CheckKeeps ==
  ASSUME LoopsReady, NEW b \in Reachable(succ), NEW s \in LayoutKept, FirstIsRoot(s, b)
  PROVE  LET t == CheckFalseBranchOrder(s, b)
         IN  t \in LaidSince(s) /\ t.order = s.order /\ t.succ = s.succ /\ \A p \in Reachable(succ) : Checked(t, p, b)
<1> DEFINE f == [t \in LayoutState |-> [p \in Block |-> CheckAfter(t, p, b)]]
           P == {t \in LaidSince(s) : t.order = s.order /\ t.succ = s.succ}
           G == [p \in Block |-> {t \in LayoutState : Checked(t, p, b)}]
<1>1. PICK q : q = Preds(succ, b)
  OBVIOUS
<1>2. b \in Block /\ q \in Seq(Block) /\ Range(q) \subseteq Block /\ \A p \in Block : p \in Range(q) <=> b \in SuccSet(succ, p)
  BY <1>1, PredsReachable, ReachableFacts
<1>3. Visitor(f, LayoutState, Block)
  BY <1>2, CheckAfterType DEF Visitor
<1>4. P \in SUBSET LayoutState /\ s \in P
  BY DEF LaidSince, LayoutKept
<1>5. ASSUME NEW t \in P, NEW p \in Range(q)
      PROVE  /\ f[t][p] \in P /\ Checked(f[t][p], p, b)
             /\ \A c \in Block : Checked(t, c, b) => Checked(f[t][p], c, b)
  <2>1. t \in LayoutKept /\ t \in LayoutState /\ t.order = s.order /\ t.succ = s.succ /\ (Fine(t) => Fine(s))
    BY <1>4 DEF LaidSince
  <2>2. FirstIsRoot(t, b)
    BY <2>1 DEF FirstIsRoot
  <2>3. PICK u : u = CheckAfter(t, p, b)
    OBVIOUS
  <2>4. u \in LaidSince(t) /\ u.order = t.order /\ u.succ = t.succ /\ Checked(u, p, b)
    BY <1>1, <2>1, <2>2, <2>3, CheckAfterKeeps
  <2>5. u \in P
    BY <2>1, <2>4 DEF LaidSince
  <2>6. \A c \in Block : Checked(t, c, b) => Checked(u, c, b)
    BY <2>4 DEF Checked, Follows, LaidSince
  <2>7. f[t][p] = u
    BY <1>2, <2>1, <2>3
  <2> QED
    BY <2>4, <2>5, <2>6, <2>7
<1>6. PICK t : t = EachOf(f, q, s)
  OBVIOUS
<1>7. t = CheckFalseBranchOrder(s, b)
  BY <1>1, <1>6 DEF CheckFalseBranchOrder
<1> HIDE DEF f, P
<1>8. t \in P
  BY <1>2, <1>3, <1>4, <1>5, <1>6, EachOfKeeps
<1>9. \A p \in Range(q) : t \in G[p]
  <2>1. \A u \in P : \A p \in Range(q) : f[u][p] \in P
    BY <1>5
  <2>2. \A u \in P : \A p \in Range(q) : f[u][p] \in G[p]
    BY <1>2, <1>4, <1>5
  <2>3. \A u \in P : \A p, c \in Range(q) : u \in G[c] => f[u][p] \in G[c]
    BY <1>2, <1>4, <1>5
  <2> HIDE DEF G
  <2> QED
    BY <1>2, <1>3, <1>4, <1>6, <2>1, <2>2, <2>3, EachOfBrings
<1>10. ASSUME NEW p \in Reachable(succ) PROVE Checked(t, p, b)
  <2>1. p \in Block
    BY ReachableFacts
  <2>2. CASE b \in SuccSet(succ, p)
    BY <1>2, <1>9, <2>1, <2>2
  <2>3. CASE b \notin SuccSet(succ, p)
    <3>1. t \in LayoutKept
      BY <1>8 DEF P, LaidSince
    <3>2. SuccSet(t.succ, p) = SuccSet(succ, p) /\ Len(t.succ[p]) = Len(succ[p]) /\ t.succ[p] \in Seq(Block)
      BY <2>1, <3>1, KeptFacts, SuccSeq DEF SameEdges
    <3>3. ASSUME Conditional(p) PROVE FalseSucc(t.succ, p) \in SuccSet(succ, p)
      <4>1. 2 \in DOMAIN t.succ[p]
        BY <3>2, <3>3 DEF Conditional
      <4> QED
        BY <3>2, <4>1 DEF FalseSucc, SuccSet
    <3> QED
      BY <2>3, <3>3 DEF Checked
  <2> QED
    BY <2>2, <2>3
<1> QED
  BY <1>7, <1>8, <1>10 DEF P

\* What appending to the order does to neighbours.
LEMMA AppendNeighbours ==
  ASSUME NEW q \in Seq(Block), NEW b \in Block
  PROVE  /\ \A a, c \in Block : NextTo(q, a, c) => NextTo(Append(q, b), a, c)
         /\ q # <<>> => NextTo(Append(q, b), Last(q), b)
<1>1. PICK n \in Nat : n = Len(q)
  OBVIOUS
<1>2. PICK o : o = Append(q, b)
  OBVIOUS
<1>3. Len(o) = n + 1 /\ o[n + 1] = b /\ \A i \in 1 .. n : o[i] = q[i]
  BY <1>1, <1>2
<1>4. ASSUME NEW a \in Block, NEW c \in Block, NextTo(q, a, c) PROVE NextTo(o, a, c)
  <2>1. PICK i \in 1 .. n - 1 : q[i] = a /\ q[i + 1] = c
    BY <1>1, <1>4 DEF NextTo
  <2>2. i \in 1 .. n /\ i + 1 \in 1 .. n /\ i \in 1 .. (n + 1) - 1
    BY <1>1
  <2> QED
    BY <1>3, <2>1, <2>2 DEF NextTo
<1>5. ASSUME q # <<>> PROVE NextTo(o, Last(q), b)
  <2>1. n \in 1 .. n /\ n \in 1 .. (n + 1) - 1
    BY <1>1, <1>5, EmptySeq
  <2> QED
    BY <1>1, <1>3, <2>1 DEF NextTo, Last
<1> QED
  BY <1>2, <1>4, <1>5

\* A block that was not placed takes its place.
LEMMA PlaceInKeeps ==
  ASSUME NEW b \in Reachable(succ), NEW s \in LayoutKept, b \notin Range(s.order), FirstIsRoot(s, b),
         loop[b] = Null => \A p \in Reachable(succ) : Checked(s, p, b)
  PROVE  LET t == PlaceIn(s, b) IN t \in LaidSince(s) /\ (Fine(t) => b \in Range(t.order))
<1>1. /\ s \in LayoutState /\ s.succ \in Cfgs /\ s.order \in Seq(Block)
      /\ SameEdges(succ, s.succ) /\ IsInjective(s.order) /\ Range(s.order) \subseteq Reachable(succ)
      /\ (s.order # <<>> => Head(s.order) = Root) /\ (s.status = "crash" => CrashReason)
      /\ FalseFollows(s.succ, s.order)
  BY KeptFacts
<1>2. b \in Block
  BY ReachableFacts
<1>3. CASE ~Fine(s)
  BY <1>3 DEF PlaceIn, LaidSince
<1>4. CASE Fine(s)
  <2>1. PICK o : o = Append(s.order, b)
    OBVIOUS
  <2>2. /\ o \in Seq(Block) /\ o # <<>> /\ Range(o) = Range(s.order) \cup {b} /\ IsInjective(o)
        /\ (s.order # <<>> => Head(o) = Head(s.order)) /\ (s.order = <<>> => Head(o) = b)
    BY <1>1, <1>2, <2>1, AppendMembers
  <2>3. PICK t : t = PlaceIn(s, b)
    OBVIOUS
  <2>4. t \in LayoutState /\ t.succ = s.succ /\ t.order = o /\ t.status = s.status
    BY <1>1, <1>4, <2>1, <2>2, <2>3 DEF PlaceIn, LayoutState
  <2>5. Head(o) = Root
    BY <1>1, <1>4, <2>2 DEF FirstIsRoot
  <2>6. ASSUME NEW p \in Reachable(succ), Conditional(p), loop[FalseSucc(s.succ, p)] = Null, FalseSucc(s.succ, p) \in Range(o)
        PROVE  NextTo(o, p, FalseSucc(s.succ, p))
    <3>1. CASE FalseSucc(s.succ, p) \in Range(s.order)
      <4>1. NextTo(s.order, p, FalseSucc(s.succ, p))
        BY <1>1, <2>6, <3>1 DEF FalseFollows
      <4>2. p \in Block /\ FalseSucc(s.succ, p) \in Block
        BY <1>1, <3>1, ReachableFacts DEF Range
      <4> QED
        BY <1>1, <1>2, <2>1, <4>1, <4>2, AppendNeighbours
    <3>2. CASE FalseSucc(s.succ, p) = b
      <4>1. s.order # <<>> /\ Last(s.order) = p
        BY <1>4, <2>6, <3>2 DEF Checked, Follows
      <4> QED
        BY <1>1, <1>2, <2>1, <3>2, <4>1, AppendNeighbours
    <3> QED
      BY <2>2, <2>6, <3>1, <3>2
  <2>7. FalseFollows(t.succ, t.order)
    BY <2>4, <2>6 DEF FalseFollows
  <2>8. t \in LayoutKept
    BY <1>1, <2>2, <2>4, <2>5, <2>7 DEF LayoutKept
  <2> QED
    BY <1>4, <2>2, <2>3, <2>4, <2>8 DEF LaidSince
<1> QED
  BY <1>3, <1>4

-----------------------------------------------------------------------------
(***************************************************************************)
(* ProccessLoop lays out some reachable blocks, none of them twice.        *)
(***************************************************************************)
\* Something was placed, unless the program has stopped.
Begun(s) == Fine(s) => s.order # <<>>

ProcessCalls == [LayoutState -> [DOMAIN loops -> LayoutState]]

ProcessRight(f) == \A s \in LayoutKept : Begun(s) => \A l \in Found(loops, root) : f[s][l] \in LaidSince(s)

\* One predecessor list keeps the type of the state.
LEMMA FixType ==
  ASSUME LoopsReady, NEW s \in LayoutState, NEW b \in Block
  PROVE  FixFalseBranchOrder(s, b) \in LayoutState /\ CheckFalseBranchOrder(s, b) \in LayoutState
<1> DEFINE f == [t \in LayoutState |-> [p \in Block |-> FixAfter(t, p, b)]]
           g == [t \in LayoutState |-> [p \in Block |-> CheckAfter(t, p, b)]]
<1>1. PICK q : q = Preds(succ, b)
  OBVIOUS
<1>2. q \in Seq(Block) /\ Range(q) \subseteq Block
  BY <1>1, PredsFacts DEF LoopsReady
<1>3. Visitor(f, LayoutState, Block) /\ Visitor(g, LayoutState, Block)
  BY FixAfterType, CheckAfterType DEF Visitor
<1>4. FixFalseBranchOrder(s, b) = EachOf(f, q, s) /\ CheckFalseBranchOrder(s, b) = EachOf(g, q, s)
  BY <1>1 DEF FixFalseBranchOrder, CheckFalseBranchOrder
<1> HIDE DEF f, g
<1>5. \A t \in LayoutState : \A p \in Range(q) : f[t][p] \in LayoutState /\ g[t][p] \in LayoutState
  BY <1>2, <1>3 DEF Visitor
<1>6. EachOf(f, q, s) \in LayoutState
  BY <1>2, <1>3, <1>5, EachOfKeeps
<1>7. EachOf(g, q, s) \in LayoutState
  BY <1>2, <1>3, <1>5, EachOfKeeps
<1> QED
  BY <1>4, <1>6, <1>7

LEMMA PlaceInType ==
  ASSUME NEW s \in LayoutState, NEW b \in Block
  PROVE  PlaceIn(s, b) \in LayoutState
<1>1. PICK o : o = Append(s.order, b)
  OBVIOUS
<1>2. o \in Seq(Block) /\ PlaceIn(s, b) \in {s, [s EXCEPT !.order = o]}
  BY <1>1 DEF PlaceIn, LayoutState
<1> QED
  BY <1>2 DEF LayoutState

\* The loop that a header belongs to.
LEMMA HeaderLoop ==
  ASSUME LoopsReady, NEW b \in Block, loop[b] # Null
  PROVE  loop[b] \in Found(loops, root) /\ loop[b] \in DOMAIN loops
<1>1. loop[b] \in Nat /\ loop[b] <= Len(loops) /\ loop[b] # root /\ DOMAIN loops = 1 .. Len(loops) /\ Len(loops) \in Nat
  BY DEF LoopsReady, LoopsExist
<1>2. loop[b] \in 1 .. Len(loops)
  BY <1>1 DEF Null
<1> QED
  BY <1>1, <1>2 DEF Found

LEMMA TakeBlockType ==
  ASSUME LoopsReady, NEW f \in ProcessCalls, NEW s \in LayoutState, NEW l, NEW b \in Block
  PROVE  TakeBlock(f, s, l, b) \in LayoutState
<1>1. CASE IsLoopHeader(b) /\ loop[b] # l
  <2>1. loop[b] \in DOMAIN loops
    BY <1>1, HeaderLoop DEF IsLoopHeader
  <2>2. f[s][loop[b]] \in LayoutState
    BY <2>1 DEF ProcessCalls
  <2> QED
    BY <1>1, <2>2 DEF TakeBlock
<1>2. CASE ~(IsLoopHeader(b) /\ loop[b] # l)
  <2>1. PlaceIn(FixFalseBranchOrder(s, b), b) \in LayoutState
    BY FixType, PlaceInType
  <2> QED
    BY <1>2, <2>1 DEF TakeBlock
<1> QED
  BY <1>1, <1>2

\* One block of a loop.
LEMMA TakeBlockKeeps ==
  ASSUME LoopsReady, NEW f, ProcessRight(f), NEW l \in Found(loops, root), NEW b \in Reachable(succ),
         NEW s \in LayoutKept, FirstIsRoot(s, b), IsLoopHeader(b) /\ loop[b] # l => Begun(s)
  PROVE  LET t == TakeBlock(f, s, l, b)
         IN  t \in LaidSince(s) /\ (IsLoopHeader(b) /\ loop[b] = l /\ Fine(t) => b \in Range(t.order))
<1>1. b \in Block
  BY ReachableFacts
<1>2. PICK t : t = TakeBlock(f, s, l, b)
  OBVIOUS
<1>3. CASE IsLoopHeader(b) /\ loop[b] # l
  <2>1. loop[b] \in Found(loops, root)
    BY <1>1, <1>3, HeaderLoop DEF IsLoopHeader
  <2>2. t = f[s][loop[b]]
    BY <1>2, <1>3 DEF TakeBlock
  <2>3. t \in LaidSince(s)
    BY <1>3, <2>1, <2>2 DEF ProcessRight
  <2> QED
    BY <1>2, <1>3, <2>3
<1>4. CASE ~(IsLoopHeader(b) /\ loop[b] # l) /\ ~Placed(s, b) /\ OwnBlock(b, l)
  <2>1. loop[b] # Null /\ b \notin Range(s.order)
    BY <1>4, HeaderLoop DEF OwnBlock, Placed, Found, LoopsReady, Null
  <2>2. PICK u : u = FixFalseBranchOrder(s, b)
    OBVIOUS
  <2>3. u \in LaidSince(s) /\ u.order = s.order
    BY <2>1, <2>2, FixKeeps
  <2>4. u \in LayoutKept /\ (Fine(u) => Fine(s)) /\ FirstIsRoot(u, b)
    BY <2>3 DEF LaidSince, FirstIsRoot
  <2>5. t = PlaceIn(u, b)
    BY <1>2, <1>4, <2>2 DEF TakeBlock
  <2>6. t \in LaidSince(u) /\ (Fine(t) => b \in Range(t.order))
    BY <2>1, <2>3, <2>4, <2>5, PlaceInKeeps
  <2>7. t \in LaidSince(s)
    BY <2>3, <2>4, <2>6 DEF LaidSince
  <2> QED
    BY <1>2, <2>6, <2>7
<1>5. CASE ~(IsLoopHeader(b) /\ loop[b] # l) /\ ~(~Placed(s, b) /\ OwnBlock(b, l))
  <2>1. t = s
    BY <1>2, <1>5 DEF TakeBlock
  <2>2. IsLoopHeader(b) /\ loop[b] = l => b \in Range(s.order)
    BY <1>5 DEF OwnBlock, Placed
  <2> QED
    BY <1>2, <2>1, <2>2 DEF LaidSince
<1> QED
  BY <1>3, <1>4, <1>5

\* The blocks of a loop, the header first.
LEMMA FromHeaderFacts ==
  ASSUME LoopsReady, NEW l \in Found(loops, root)
  PROVE  /\ FromHeader(l) \in Seq(Block) /\ Range(FromHeader(l)) \subseteq Reachable(succ)
         /\ loops[l].blocks # <<>> => FromHeader(l) # <<>> /\ Head(FromHeader(l)) = loops[l].header
<1>1. PICK q \in Seq(Block) : q = loops[l].blocks
  <2>1. loops[l] \in Loop
    BY DEF LoopsReady, Found
  <2> QED
    BY <2>1 DEF Loop
<1>2. PICK r : r = FromHeader(l)
  OBVIOUS
<1>3. r \in Seq(Block) /\ Range(r) = Range(q) /\ (q # <<>> => r # <<>> /\ Head(r) = Last(q))
  BY <1>1, <1>2, ReverseFacts DEF FromHeader
<1>4. q # <<>> => Range(q) \subseteq Reachable(succ) /\ Last(q) = loops[l].header
  BY <1>1 DEF LoopsReady
<1>5. q = <<>> => Range(q) = {}
  BY DEF Range
<1> QED
  BY <1>1, <1>2, <1>3, <1>4, <1>5

LEMMA TakeLoopType ==
  ASSUME LoopsReady, NEW f \in ProcessCalls, NEW s \in LayoutState, NEW l \in DOMAIN loops
  PROVE  TakeLoop(f, s, l) \in LayoutState
<1> DEFINE g == [t \in LayoutState |-> [b \in Block |-> TakeBlock(f, t, l, b)]]
<1>1. PICK q : q = FromHeader(l)
  OBVIOUS
<1>2. q \in Seq(Block) /\ Range(q) \subseteq Block
  <2>1. loops[l].blocks \in Seq(Block)
    <3>1. loops[l] \in Loop
      BY DEF LoopsReady
    <3> QED
      BY <3>1 DEF Loop
  <2>2. q \in Seq(Block)
    BY <1>1, <2>1, ReverseFacts DEF FromHeader
  <2> QED
    BY <2>2 DEF Range
<1>3. Visitor(g, LayoutState, Block)
  BY TakeBlockType DEF Visitor
<1>4. TakeLoop(f, s, l) = EachOf(g, q, s)
  BY <1>1 DEF TakeLoop
<1> HIDE DEF g
<1>5. \A t \in LayoutState : \A b \in Range(q) : g[t][b] \in LayoutState
  BY <1>2, <1>3 DEF Visitor
<1> QED
  BY <1>2, <1>3, <1>4, <1>5, EachOfKeeps

\* A call of ProccessLoop when something was placed.
LEMMA TakeLoopKeeps ==
  ASSUME LoopsReady, NEW f \in ProcessCalls, ProcessRight(f), NEW l \in Found(loops, root),
         NEW s \in LayoutKept, Begun(s)
  PROVE  TakeLoop(f, s, l) \in LaidSince(s)
<1> DEFINE g == [t \in LayoutState |-> [b \in Block |-> TakeBlock(f, t, l, b)]]
           P == LaidSince(s)
<1>1. PICK q : q = FromHeader(l)
  OBVIOUS
<1>2. q \in Seq(Block) /\ Range(q) \subseteq Reachable(succ)
  BY <1>1, FromHeaderFacts
<1>3. Visitor(g, LayoutState, Block)
  BY TakeBlockType DEF Visitor
<1>4. TakeLoop(f, s, l) = EachOf(g, q, s)
  BY <1>1 DEF TakeLoop
<1>5. P \in SUBSET LayoutState /\ s \in P
  BY DEF LaidSince, LayoutKept
<1>6. ASSUME NEW t \in P, NEW b \in Range(q) PROVE g[t][b] \in P
  <2>1. t \in LayoutKept /\ t \in LayoutState /\ Range(s.order) \subseteq Range(t.order) /\ (Fine(t) => Fine(s))
        /\ s \in LayoutState
    BY <1>5 DEF LaidSince
  <2>2. Begun(t)
    <3>1. CASE Fine(t)
      <4>1. s.order # <<>> /\ s.order \in Seq(Block) /\ t.order \in Seq(Block)
        BY <2>1, <3>1 DEF Begun, LayoutState
      <4>2. Head(s.order) \in Range(s.order)
        BY <4>1, TailRange
      <4>3. Head(s.order) \in Range(t.order)
        BY <2>1, <4>2
      <4> QED
        BY <4>3 DEF Begun, Range
    <3> QED
      BY <3>1 DEF Begun
  <2>3. FirstIsRoot(t, b)
    BY <2>2 DEF FirstIsRoot, Begun
  <2>4. b \in Reachable(succ) /\ b \in Block
    BY <1>2, ReachableFacts
  <2>5. PICK u : u = TakeBlock(f, t, l, b)
    OBVIOUS
  <2>6. u \in LaidSince(t)
    BY <2>1, <2>2, <2>3, <2>4, <2>5, TakeBlockKeeps
  <2>7. u \in P
    BY <2>1, <2>6 DEF LaidSince
  <2> QED
    BY <2>1, <2>4, <2>5, <2>7
<1> HIDE DEF g, P
<1>7. EachOf(g, q, s) \in P
  BY <1>2, <1>3, <1>5, <1>6, EachOfKeeps
<1> QED
  BY <1>4, <1>7 DEF P

\* The call at the header of a loop that was not placed places it.
LEMMA TakeLoopFirst ==
  ASSUME LoopsReady, NEW f \in ProcessCalls, ProcessRight(f), NEW b \in Reachable(succ), IsLoopHeader(b),
         NEW s \in LayoutKept, FirstIsRoot(s, b)
  PROVE  LET t == TakeLoop(f, s, loop[b]) IN t \in LaidSince(s) /\ (Fine(t) => b \in Range(t.order))
<1>1. PICK l : l = loop[b]
  OBVIOUS
<1> DEFINE g == [t \in LayoutState |-> [c \in Block |-> TakeBlock(f, t, l, c)]]
           P == {t \in LaidSince(s) : Fine(t) => b \in Range(t.order)}
<1>2. b \in Block /\ l \in Found(loops, root) /\ loops[l].header = b /\ l \in DOMAIN loops
  BY <1>1, HeaderLoop, ReachableFacts DEF IsLoopHeader
<1>3. PICK q : q = FromHeader(l)
  OBVIOUS
<1>4. q \in Seq(Block) /\ Range(q) \subseteq Reachable(succ) /\ q # <<>> /\ Head(q) = b
  BY <1>1, <1>2, <1>3, FromHeaderFacts DEF LoopsReady
<1>5. Visitor(g, LayoutState, Block)
  BY TakeBlockType DEF Visitor
<1>6. TakeLoop(f, s, l) = EachOf(g, q, s)
  BY <1>3 DEF TakeLoop
<1>7. P \in SUBSET LayoutState /\ s \in LayoutState
  BY DEF LaidSince, LayoutKept
<1>8. g[s][Head(q)] \in P
  <2>1. PICK u : u = TakeBlock(f, s, l, b)
    OBVIOUS
  <2>2. u \in LaidSince(s) /\ (Fine(u) => b \in Range(u.order))
    BY <1>1, <1>2, <2>1, TakeBlockKeeps
  <2>3. g[s][b] = u
    BY <1>2, <1>7, <2>1
  <2> QED
    BY <1>4, <2>2, <2>3
<1>9. ASSUME NEW t \in P, NEW c \in Range(q) PROVE g[t][c] \in P
  <2>1. t \in LayoutKept /\ t \in LayoutState /\ Range(s.order) \subseteq Range(t.order) /\ (Fine(t) => Fine(s))
        /\ (Fine(t) => b \in Range(t.order))
    BY <1>7 DEF LaidSince
  <2>2. Begun(t)
    BY <2>1 DEF Begun, Range
  <2>3. FirstIsRoot(t, c)
    BY <2>2 DEF FirstIsRoot, Begun
  <2>4. c \in Reachable(succ) /\ c \in Block
    BY <1>4, ReachableFacts
  <2>5. PICK u : u = TakeBlock(f, t, l, c)
    OBVIOUS
  <2>6. u \in LaidSince(t)
    BY <1>2, <2>1, <2>2, <2>3, <2>4, <2>5, TakeBlockKeeps
  <2>7. u \in P
    BY <2>1, <2>6 DEF LaidSince
  <2> QED
    BY <2>1, <2>4, <2>5, <2>7
<1> HIDE DEF g, P
<1>10. EachOf(g, q, s) \in P
  BY <1>4, <1>5, <1>7, <1>8, <1>9, EachOfFirst
<1> QED
  BY <1>1, <1>6, <1>10 DEF P

\* v[n] is a call of ProccessLoop that others may nest in n deep.
Nesting(v) ==
  /\ v[N] = ProccessLoop
  /\ \A n \in 0 .. N : v[n] \in ProcessCalls
  /\ \A s \in LayoutState : \A l \in DOMAIN loops : v[0][s][l] = s
  /\ \A n \in 1 .. N : \A s \in LayoutState : \A l \in DOMAIN loops : v[n][s][l] = TakeLoop(v[n - 1], s, l)

LEMMA NestingExists ==
  ASSUME LoopsReady
  PROVE  \E v : Nesting(v)
<1> DEFINE L == DOMAIN loops
           base == [s \in LayoutState |-> [l \in L |-> s]]
           step == [f \in ProcessCalls |-> [s \in LayoutState |-> [l \in L |-> TakeLoop(f, s, l)]]]
           D(v, n) == IF n = 0 THEN [s \in LayoutState |-> [l \in L |-> s]]
                      ELSE [s \in LayoutState |-> [l \in L |-> TakeLoop(v[n - 1], s, l)]]
           is(v) == v = [n \in 0 .. N |-> D(v, n)]
           process == CHOOSE v : is(v)
<1>1. N \in Nat /\ 0 \in 0 .. N
  BY SizeAssumption
<1>2. base \in ProcessCalls
  BY DEF ProcessCalls
<1>3. ASSUME NEW f \in ProcessCalls
      PROVE  [s \in LayoutState |-> [l \in L |-> TakeLoop(f, s, l)]] \in ProcessCalls
  <2>1. \A s \in LayoutState : \A l \in DOMAIN loops : TakeLoop(f, s, l) \in LayoutState
    BY TakeLoopType
  <2> QED
    BY <2>1 DEF ProcessCalls
<1>4. step \in [ProcessCalls -> ProcessCalls]
  <2> HIDE DEF ProcessCalls
  <2> QED
    BY <1>3
<1>5. PICK v : Levels(N, ProcessCalls, base, step, v)
  <2> HIDE DEF base, step
  <2> QED
    BY <1>1, <1>2, <1>4, LevelsExist
<1>6. is(v)
  <2>1. ASSUME NEW n \in 0 .. N PROVE v[n] = D(v, n)
    <3>1. CASE n = 0
      BY <1>5, <3>1 DEF Levels
    <3>2. CASE n # 0
      <4>1. n \in 1 .. N /\ n - 1 \in 0 .. N
        BY <1>1, <3>2
      <4>2. v[n - 1] \in ProcessCalls /\ v[n] = step[v[n - 1]]
        BY <1>5, <4>1 DEF Levels
      <4> HIDE DEF ProcessCalls
      <4> QED
        BY <4>2, <3>2
    <3> QED
      BY <3>1, <3>2
  <2> HIDE DEF D
  <2> QED
    BY <1>5, <2>1 DEF Levels
<1>7. is(process)
  <2> HIDE DEF is
  <2> QED
    BY <1>6
<1>8. ProccessLoop = process[N]
  BY DEF ProccessLoop
<1> HIDE DEF process
<1>9. \A n \in 0 .. N : process[n] \in ProcessCalls
  <2> DEFINE Q == [n \in 0 .. N |-> ProcessCalls]
  <2>1. ASSUME NEW n \in 1 .. N, process[n - 1] \in ProcessCalls PROVE process[n] \in ProcessCalls
    <3>1. n \in 0 .. N /\ n # 0
      BY <1>1
    <3>2. process[n] = D(process, n)
      <4> HIDE DEF D
      <4> QED
        BY <1>7, <3>1
    <3> QED
      BY <1>3, <2>1, <3>1, <3>2
  <2>2. process[0] = base /\ 0 \in 0 .. N
    BY <1>1, <1>7
  <2> HIDE DEF base, D, ProcessCalls
  <2>3. ASSUME NEW n \in 0 .. N PROVE process[n] \in ProcessCalls
    <3>1. process[0] \in Q[0]
      BY <1>2, <2>2
    <3>2. \A k \in 1 .. n : process[k - 1] \in Q[k - 1] => process[k] \in Q[k]
      <4>1. \A k \in 1 .. n : k \in 1 .. N /\ k \in 0 .. N /\ k - 1 \in 0 .. N
        BY <1>1
      <4> QED
        BY <2>1, <4>1
    <3>3. process[n] \in Q[n]
      <4> HIDE DEF Q
      <4> QED
        BY <3>1, <3>2, LevelsKeep
    <3> QED
      BY <3>3
  <2> QED
    BY <2>3
<1>10. \A s \in LayoutState : \A l \in DOMAIN loops : process[0][s][l] = s
  <2>1. process[0] = base
    BY <1>1, <1>7
  <2> QED
    BY <2>1
<1>11. ASSUME NEW n \in 1 .. N, NEW s \in LayoutState, NEW l \in DOMAIN loops
       PROVE  process[n][s][l] = TakeLoop(process[n - 1], s, l)
  <2>1. n \in 0 .. N /\ n # 0
    BY <1>1
  <2>2. process[n] = D(process, n)
    <3> HIDE DEF D
    <3> QED
      BY <1>7, <2>1
  <2> QED
    BY <2>1, <2>2
<1> QED
  BY <1>8, <1>9, <1>10, <1>11 DEF Nesting

\* The calls are right for every depth.
LEMMA NestingRight ==
  ASSUME LoopsReady, NEW v, Nesting(v), NEW n \in 0 .. N
  PROVE  ProcessRight(v[n])
<1> DEFINE P == [k \in 0 .. N |-> {f \in ProcessCalls : ProcessRight(f)}]
<1>1. N \in Nat /\ 0 \in 0 .. N /\ n \in Nat
  BY SizeAssumption
<1>2. v[0] \in P[0]
  <2>1. ASSUME NEW s \in LayoutKept, NEW l \in Found(loops, root) PROVE v[0][s][l] \in LaidSince(s)
    <3>1. s \in LayoutState /\ l \in DOMAIN loops
      BY DEF LayoutKept, Found
    <3>2. v[0][s][l] = s
      BY <3>1 DEF Nesting
    <3> QED
      BY <3>2 DEF LaidSince
  <2> QED
    BY <1>1, <2>1 DEF ProcessRight, Nesting
<1>3. ASSUME NEW k \in 1 .. n, v[k - 1] \in P[k - 1] PROVE v[k] \in P[k]
  <2>1. k \in 1 .. N /\ k \in 0 .. N /\ k - 1 \in 0 .. N
    BY <1>1
  <2>2. PICK f : f = v[k - 1]
    OBVIOUS
  <2>3. f \in ProcessCalls /\ ProcessRight(f)
    BY <1>3, <2>1, <2>2
  <2>4. ASSUME NEW s \in LayoutKept, Begun(s), NEW l \in Found(loops, root) PROVE v[k][s][l] \in LaidSince(s)
    <3>1. s \in LayoutState /\ l \in DOMAIN loops
      BY DEF LayoutKept, Found
    <3>2. TakeLoop(f, s, l) \in LaidSince(s)
      BY <2>3, <2>4, TakeLoopKeeps
    <3> QED
      BY <2>1, <2>2, <3>1, <3>2 DEF Nesting
  <2>5. v[k] \in ProcessCalls
    BY <2>1 DEF Nesting
  <2> QED
    BY <2>1, <2>4, <2>5 DEF ProcessRight
<1>4. v[n] \in P[n]
  <2> HIDE DEF P
  <2> QED
    BY <1>1, <1>2, <1>3, LevelsKeep
<1> QED
  BY <1>4

\* At a header that was not placed ProccessLoop places the header.
PlacesHeader(f) ==
  \A b \in Reachable(succ) : \A s \in LayoutKept : IsLoopHeader(b) /\ FirstIsRoot(s, b) =>
    f[s][loop[b]] \in LaidSince(s) /\ (Fine(f[s][loop[b]]) => b \in Range(f[s][loop[b]].order))

LEMMA ProccessLoopRight ==
  ASSUME LoopsReady
  PROVE  ProccessLoop \in ProcessCalls /\ ProcessRight(ProccessLoop) /\ PlacesHeader(ProccessLoop)
<1>1. PICK v : Nesting(v)
  BY NestingExists
<1>2. N \in 1 .. N /\ N \in 0 .. N /\ N - 1 \in 0 .. N
  BY SizeAssumption
<1>3. PICK f : f = v[N - 1]
  OBVIOUS
<1>4. f \in ProcessCalls /\ ProcessRight(f) /\ ProccessLoop \in ProcessCalls /\ ProcessRight(ProccessLoop)
  BY <1>1, <1>2, <1>3, NestingRight DEF Nesting
<1>5. ASSUME NEW b \in Reachable(succ), NEW s \in LayoutKept, IsLoopHeader(b), FirstIsRoot(s, b)
      PROVE  /\ ProccessLoop[s][loop[b]] \in LaidSince(s)
             /\ Fine(ProccessLoop[s][loop[b]]) => b \in Range(ProccessLoop[s][loop[b]].order)
  <2>1. b \in Block /\ loop[b] \in DOMAIN loops /\ s \in LayoutState
    BY <1>5, HeaderLoop, ReachableFacts DEF IsLoopHeader, LayoutKept
  <2>2. PICK t : t = TakeLoop(f, s, loop[b])
    OBVIOUS
  <2>3. t \in LaidSince(s) /\ (Fine(t) => b \in Range(t.order))
    BY <1>4, <1>5, <2>2, TakeLoopFirst
  <2>4. ProccessLoop[s][loop[b]] = t
    BY <1>1, <1>2, <1>3, <2>1, <2>2 DEF Nesting
  <2> QED
    BY <2>3, <2>4
<1> QED
  BY <1>4, <1>5 DEF PlacesHeader

-----------------------------------------------------------------------------
(***************************************************************************)
(* The inductive invariant: LoopAnalyzer's until it is done, and then what *)
(* was placed, which with the blocks still to come is every block that is  *)
(* reached.                                                                *)
(***************************************************************************)
Laid == /\ rpo \in Seq(Block) /\ Range(rpo) \subseteq Reachable(succ)
        /\ order \in Seq(Block) /\ inverted \in SUBSET Block
        /\ IsInjective(order) /\ Range(order) \subseteq Reachable(succ)
        /\ order # <<>> => Head(order) = Root
        /\ FalseFollows(succ, order)

Progress == /\ status \in {"order", "done", "misplaced", "nojump", "crash", "used"}
            /\ status = "crash" => CrashReason
            /\ status \in {"order", "done", "used"} => Reachable(succ) \subseteq Range(order) \cup Range(rpo)
            /\ status = "order" /\ order = <<>> => rpo # <<>> /\ Head(rpo) = Root
            /\ status \in {"done", "used"} => rpo = <<>>

LayoutInv == /\ pc # "layout" => LoopInv /\ status = "pending" /\ order = <<>> /\ inverted = {}
             /\ pc = "layout" => LoopsReady /\ Laid /\ Progress

LEMMA InitLayoutInv == LinearInit => LayoutInv
<1> SUFFICES ASSUME LinearInit PROVE LayoutInv
  OBVIOUS
<1>1. pc = "collect" /\ status = "pending" /\ order = <<>> /\ inverted = {}
  BY DEF LinearInit, Init, LayoutInit
<1>2. LoopInv
  BY InitLoopInv DEF LinearInit
<1> QED
  BY <1>1, <1>2 DEF LayoutInv

\* What LoopAnalyzer leaves behind is what the layout needs.
LEMMA AnalysisReady == LoopInv /\ pc = "done" => LoopsReady
<1> SUFFICES ASSUME LoopInv, pc = "done" PROVE LoopsReady
  OBVIOUS
<1>1. succ \in Cfgs /\ NoDeadEdges(succ) /\ loops \in Seq(Loop) /\ loop \in [Block -> Nat] /\ root \in Nat
      /\ LoopsExist(loops, loop, root)
  BY DEF LoopInv, Typed
<1>2. ASSUME NEW l \in Found(loops, root), loops[l].blocks # <<>>
      PROVE  Range(loops[l].blocks) \subseteq Reachable(succ) /\ Last(loops[l].blocks) = loops[l].header
  <2>1. Body(succ, loops[l]) /\ IsBackEdge(loops[l])
    BY <1>2 DEF LoopInv
  <2>2. loops[l].header \in Reachable(succ)
    BY <2>1 DEF IsBackEdge, EdgeOf, BackEdges
  <2> QED
    BY <2>1, <2>2 DEF Body, NaturalLoop
<1>3. ASSUME NEW b \in Reachable(succ), IsLoopHeader(b) PROVE loops[loop[b]].blocks # <<>>
  BY <1>3 DEF LoopInv, HeadersCollected
<1> QED
  BY <1>1, <1>2, <1>3 DEF LoopsReady

LEMMA AnalyseLayoutInv == LayoutInv /\ Analyse => LayoutInv'
<1> SUFFICES ASSUME LayoutInv, Analyse PROVE LayoutInv'
  OBVIOUS
<1>1. status' = status /\ order' = order /\ inverted' = inverted
  BY DEF Analyse, layout
<1>2. pc # "layout" /\ pc' # "layout"
  BY DEF Analyse, CollectBackEdges, PopulateLoops, NewRoot, BuildLoopTree, SetRootLoop
<1>3. LoopInv /\ status = "pending" /\ order = <<>> /\ inverted = {}
  BY <1>2 DEF LayoutInv
<1>4. LoopInv'
  BY <1>3, CollectLoopInv, PopulateLoopInv, NewRootLoopInv, BuildLoopInv, SetRootLoopInv DEF Analyse
<1> QED
  BY <1>1, <1>2, <1>3, <1>4 DEF LayoutInv

LEMMA BeginLayoutInv == LayoutInv /\ Begin => LayoutInv'
<1> SUFFICES ASSUME LayoutInv, Begin PROVE LayoutInv'
  OBVIOUS
<1>1. /\ succ' = succ /\ loops' = loops /\ loop' = loop /\ root' = root /\ order' = order /\ inverted' = inverted
      /\ pc = "done" /\ pc' = "layout" /\ status' = "order" /\ rpo' = ReversePostOrder(succ) /\ ends' = ends
  BY DEF Begin
<1>2. LoopInv /\ order = <<>> /\ inverted = {}
  BY <1>1 DEF LayoutInv
<1>3. LoopsReady'
  <2>1. LoopsReady
    BY <1>1, <1>2, AnalysisReady
  <2> QED
    BY <1>1, <2>1 DEF LoopsReady, NoDeadEdges, LoopsExist, Found, IsLoopHeader
<1>4. PICK q : q = PostOrder(succ)
  OBVIOUS
<1>5. q \in Seq(Block) /\ Range(q) = Reachable(succ) /\ q # <<>> /\ Last(q) = Root
  BY <1>2, <1>4, PostOrderFacts DEF LoopInv, Typed
<1>6. rpo' \in Seq(Block) /\ Range(rpo') = Reachable(succ) /\ rpo' # <<>> /\ Head(rpo') = Root
  <2>1. rpo' = Reverse(q)
    BY <1>1, <1>4 DEF ReversePostOrder
  <2> QED
    BY <1>5, <2>1, ReverseFacts
<1>7. order' \in Seq(Block) /\ order' = <<>> /\ Range(order') = {} /\ IsInjective(order') /\ inverted' = {}
  BY <1>1, <1>2 DEF Range, IsInjective
<1>8. FalseFollows(succ, order)'
  BY <1>7 DEF FalseFollows
<1>9. Laid'
  BY <1>1, <1>6, <1>7, <1>8 DEF Laid
<1>10. Progress'
  BY <1>1, <1>6 DEF Progress
<1> QED
  BY <1>1, <1>3, <1>9, <1>10 DEF LayoutInv

\* Inverting conditions leaves what was found out about the graph.
LEMMA InvertedReady ==
  ASSUME LoopsReady, succ' \in Cfgs, SameEdges(succ, succ'),
         loops' = loops, loop' = loop, root' = root, ends' = ends
  PROVE  /\ LoopsReady' /\ Reachable(succ') = Reachable(succ)
         /\ (CrashReason => CrashReason')
         /\ \A g, q : FalseFollows(g, q) => FalseFollows(g, q)'
<1>1. Reachable(succ') = Reachable(succ)
  BY SameReach
<1>2. Reachable(succ) \subseteq Block
  BY ReachableFacts DEF LoopsReady
<1>3. \A b \in Block : SuccSet(succ', b) = SuccSet(succ, b) /\ Len(succ'[b]) = Len(succ[b])
  BY DEF SameEdges
<1>4. NoDeadEdges(succ')
  BY <1>1, <1>3 DEF LoopsReady, NoDeadEdges
<1>5. LoopsReady'
  BY <1>1, <1>4 DEF LoopsReady, LoopsExist, Found, IsLoopHeader
<1>6. CrashReason => CrashReason'
  BY <1>1, <1>2, <1>3 DEF CrashReason
<1>7. \A p \in Reachable(succ) : Conditional(p)' <=> Conditional(p)
  BY <1>2, <1>3 DEF Conditional
<1>8. ASSUME NEW g, NEW q, FalseFollows(g, q) PROVE FalseFollows(g, q)'
  BY <1>1, <1>7, <1>8 DEF FalseFollows
<1> QED
  BY <1>1, <1>5, <1>6, <1>8

\* One block of the reverse post-order, as a step between states of the layout.
LEMMA PlaceKeeps ==
  ASSUME LoopsReady, NEW s \in LayoutKept, NEW b \in Reachable(succ), FirstIsRoot(s, b), Fine(s),
         NEW t, t = IF Placed(s, b) THEN s
                    ELSE IF IsLoopHeader(b) THEN ProccessLoop[s][loop[b]]
                    ELSE PlaceIn(CheckFalseBranchOrder(s, b), b)
  PROVE  t \in LaidSince(s) /\ (Fine(t) => b \in Range(t.order))
<1>1. CASE Placed(s, b)
  BY <1>1 DEF Placed, LaidSince
<1>2. CASE ~Placed(s, b) /\ IsLoopHeader(b)
  BY <1>2, ProccessLoopRight DEF PlacesHeader
<1>3. CASE ~Placed(s, b) /\ ~IsLoopHeader(b)
  <2>1. PICK u : u = CheckFalseBranchOrder(s, b)
    OBVIOUS
  <2>2. u \in LaidSince(s) /\ u.order = s.order /\ \A p \in Reachable(succ) : Checked(u, p, b)
    BY <2>1, CheckKeeps
  <2>3. u \in LayoutKept /\ (Fine(u) => Fine(s)) /\ FirstIsRoot(u, b) /\ b \notin Range(u.order)
    BY <1>3, <2>2 DEF LaidSince, FirstIsRoot, Placed
  <2>4. t = PlaceIn(u, b)
    BY <1>3, <2>1
  <2>5. t \in LaidSince(u) /\ (Fine(t) => b \in Range(t.order))
    BY <2>2, <2>3, <2>4, PlaceInKeeps
  <2> QED
    BY <2>2, <2>3, <2>5 DEF LaidSince
<1> QED
  BY <1>1, <1>2, <1>3

LEMMA PlaceLayoutInv == LayoutInv /\ Place => LayoutInv'
<1> SUFFICES ASSUME LayoutInv, Place PROVE LayoutInv'
  OBVIOUS
<1>1. status = "order" /\ rpo # <<>> /\ rpo' = Tail(rpo)
      /\ loops' = loops /\ loop' = loop /\ root' = root /\ pc' = pc /\ ends' = ends
  BY DEF Place
<1>2. pc = "layout" /\ LoopsReady /\ Laid /\ Progress
  BY <1>1 DEF LayoutInv
<1>3. PICK b : b = Head(rpo)
  OBVIOUS
<1>4. PICK s : s = [succ |-> succ, order |-> order, inverted |-> inverted, status |-> status]
  OBVIOUS
<1>5. PICK t : t = IF Placed(s, b) THEN s
                   ELSE IF IsLoopHeader(b) THEN ProccessLoop[s][loop[b]]
                   ELSE PlaceIn(CheckFalseBranchOrder(s, b), b)
  OBVIOUS
<1>6. succ' = t.succ /\ order' = t.order /\ inverted' = t.inverted /\ status' = t.status
  BY <1>3, <1>4, <1>5 DEF Place
<1>7. Range(Tail(rpo)) \cup {b} = Range(rpo) /\ Tail(rpo) \in Seq(Block) /\ Range(Tail(rpo)) \subseteq Range(rpo)
      /\ b \in Reachable(succ)
  BY <1>1, <1>2, <1>3, TailRange DEF Laid
<1>8. s.succ = succ /\ s.order = order /\ s.inverted = inverted /\ s.status = "order"
  BY <1>1, <1>4
<1>9. s \in LayoutKept
  <2>1. s \in LayoutState
    BY <1>1, <1>2, <1>4 DEF LayoutState, LoopsReady, Laid
  <2> QED
    BY <1>2, <1>8, <2>1 DEF LayoutKept, Laid, SameEdges
<1>10. FirstIsRoot(s, b) /\ Fine(s)
  BY <1>1, <1>2, <1>3, <1>8 DEF Progress, FirstIsRoot, Fine
<1>11. t \in LaidSince(s) /\ (Fine(t) => b \in Range(t.order))
  BY <1>2, <1>5, <1>7, <1>9, <1>10, PlaceKeeps
<1>12. /\ t \in LayoutState /\ t.succ \in Cfgs /\ t.order \in Seq(Block)
       /\ SameEdges(succ, t.succ) /\ IsInjective(t.order) /\ Range(t.order) \subseteq Reachable(succ)
       /\ (t.order # <<>> => Head(t.order) = Root) /\ (t.status = "crash" => CrashReason)
       /\ FalseFollows(t.succ, t.order) /\ Range(order) \subseteq Range(t.order)
  <2>1. t \in LayoutKept
    BY <1>11 DEF LaidSince
  <2> QED
    BY <1>8, <1>11, <2>1, KeptFacts DEF LaidSince
<1>13. /\ LoopsReady' /\ Reachable(succ') = Reachable(succ) /\ (CrashReason => CrashReason')
       /\ \A g, q : FalseFollows(g, q) => FalseFollows(g, q)'
  BY <1>1, <1>2, <1>6, <1>12, InvertedReady
<1>14. FalseFollows(succ, order)'
  BY <1>6, <1>12, <1>13
<1>15. Laid'
  <2>1. inverted' \in SUBSET Block
    BY <1>6, <1>12 DEF LayoutState
  <2> QED
    BY <1>1, <1>2, <1>6, <1>7, <1>12, <1>13, <1>14, <2>1 DEF Laid
<1>16. Progress'
  <2>1. status' \in {"order", "misplaced", "nojump", "crash"}
    BY <1>6, <1>12 DEF LayoutState
  <2>2. status' = "crash" => CrashReason'
    BY <1>6, <1>12, <1>13
  <2>3. ASSUME status' = "order"
        PROVE  Reachable(succ') \subseteq Range(order') \cup Range(rpo') /\ order' # <<>>
    <3>1. b \in Range(order')
      BY <1>6, <1>11, <2>3 DEF Fine
    <3>2. order' # <<>>
      BY <3>1 DEF Range
    <3> QED
      BY <1>1, <1>2, <1>6, <1>7, <1>12, <1>13, <3>1, <3>2 DEF Progress
  <2> QED
    BY <2>1, <2>2, <2>3 DEF Progress
<1> QED
  BY <1>1, <1>2, <1>13, <1>15, <1>16 DEF LayoutInv

\* What only the layout changes: the end of it, its use, and steps that change nothing.
LEMMA FinishLayoutInv ==
  ASSUME LayoutInv, UNCHANGED <<vars, ends, inverted, rpo, order>>,
         \/ status' = status
         \/ status = "order" /\ rpo = <<>> /\ status' = "done"
         \/ status = "done" /\ status' = "used"
  PROVE  LayoutInv'
<1>1. /\ succ' = succ /\ loops' = loops /\ loop' = loop /\ root' = root /\ pc' = pc /\ todo' = todo
      /\ ends' = ends /\ inverted' = inverted /\ rpo' = rpo /\ order' = order
  BY DEF vars
<1>2. CASE pc # "layout"
  <2>1. LoopInv'
    BY <1>2, StutterLoopInv DEF LayoutInv
  <2>2. status = "pending" /\ status' = "pending"
    BY <1>2 DEF LayoutInv
  <2> QED
    BY <1>1, <1>2, <2>1, <2>2 DEF LayoutInv
<1>3. CASE pc = "layout"
  <2>1. LoopsReady /\ Laid /\ Progress
    BY <1>3 DEF LayoutInv
  <2>2. SameEdges(succ, succ') /\ succ' \in Cfgs
    BY <1>1, <2>1 DEF SameEdges, LoopsReady
  <2>3. /\ LoopsReady' /\ Reachable(succ') = Reachable(succ) /\ (CrashReason => CrashReason')
        /\ \A g, q : FalseFollows(g, q) => FalseFollows(g, q)'
    BY <1>1, <2>1, <2>2, InvertedReady
  <2>4. FalseFollows(succ, order)'
    BY <1>1, <2>1, <2>3 DEF Laid
  <2>5. Laid'
    BY <1>1, <2>1, <2>3, <2>4 DEF Laid
  <2>6. Progress'
    BY <1>1, <2>1, <2>3 DEF Progress
  <2> QED
    BY <1>1, <1>3, <2>3, <2>5, <2>6 DEF LayoutInv
<1> QED
  BY <1>2, <1>3

LEMMA LinearStep == LayoutInv /\ [LinearNext]_allVars => LayoutInv'
<1> SUFFICES ASSUME LayoutInv, [LinearNext]_allVars PROVE LayoutInv'
  OBVIOUS
<1>1. CASE Analyse
  BY <1>1, AnalyseLayoutInv
<1>2. CASE Begin
  BY <1>2, BeginLayoutInv
<1>3. CASE Place
  BY <1>3, PlaceLayoutInv
<1>4. CASE SetLinearOrder
  BY <1>4, FinishLayoutInv DEF SetLinearOrder
<1>5. CASE UNCHANGED allVars
  BY <1>5, FinishLayoutInv DEF allVars, layout
<1> QED
  BY <1>1, <1>2, <1>3, <1>4, <1>5 DEF LinearNext, Stopped

\* Every step of the layout keeps the invariant.
THEOREM LayoutInvariant == LinearSpec => []LayoutInv
BY InitLayoutInv, LinearStep, PTL DEF LinearSpec

-----------------------------------------------------------------------------
LEMMA LayoutIsComplete == LayoutInv => EveryBlockOnce /\ CrashExplained
<1> SUFFICES ASSUME LayoutInv PROVE EveryBlockOnce /\ CrashExplained
  OBVIOUS
<1>1. ASSUME status = "done" PROVE Range(order) = Reachable(succ) /\ Head(order) = Root /\ IsInjective(order)
  <2>1. LoopsReady /\ Laid /\ Progress
    BY <1>1 DEF LayoutInv
  <2>2. Range(rpo) = {}
    BY <1>1, <2>1 DEF Progress, Range
  <2>3. Range(order) = Reachable(succ)
    BY <1>1, <2>1, <2>2 DEF Progress, Laid
  <2>4. order # <<>>
    BY <2>1, <2>3, ReachableFacts DEF Range, LoopsReady
  <2> QED
    BY <2>1, <2>3, <2>4 DEF Laid
<1>2. ASSUME status = "crash" PROVE CrashReason
  BY <1>2 DEF LayoutInv, Progress
<1> QED
  BY <1>1, <1>2 DEF EveryBlockOnce, CrashExplained, CrashReason

\* If the pass returns, every block that can be reached is in the linear order
\* once, the entry first, in every graph: ProccessLoop loses no block and places
\* none twice, though a block may name a loop other than the one it is found in.
THEOREM EveryBlockIsPlacedOnce == LinearSpec => []EveryBlockOnce
BY LayoutInvariant, LayoutIsComplete, PTL

\* Null pointers and the space before the order are read only where a branch
\* leads to the entry or to an empty block.
THEOREM CrashesAreExplained == LinearSpec => []CrashExplained
BY LayoutInvariant, LayoutIsComplete, PTL

\* If the pass returns, what a branch falls through to outside all loops comes
\* directly after it: no later inversion and no other block gets between them.
THEOREM FalseSuccessorsFollow ==
  LinearSpec => [](status = "done" => \A p \in Reachable(succ) :
                     Conditional(p) /\ loop[FalseSucc(succ, p)] = Null => Adjacent(p, FalseSucc(succ, p)))
<1>1. ASSUME LayoutInv, status = "done", NEW p \in Reachable(succ), Conditional(p), loop[FalseSucc(succ, p)] = Null
      PROVE  Adjacent(p, FalseSucc(succ, p))
  <2>1. LoopsReady /\ Laid
    BY <1>1 DEF LayoutInv
  <2>2. FalseSucc(succ, p) \in Range(order)
    <3>1. p \in Block /\ succ[p] \in Seq(Block) /\ succ \in Cfgs
      BY <2>1, ReachableFacts, SuccSeq DEF LoopsReady
    <3>2. FalseSucc(succ, p) \in SuccSet(succ, p)
      <4>1. 2 \in DOMAIN succ[p]
        BY <1>1, <3>1 DEF Conditional
      <4> QED
        BY <4>1 DEF FalseSucc, SuccSet
    <3>3. FalseSucc(succ, p) \in Reachable(succ)
      BY <2>1, <3>2, ReachableStep DEF LoopsReady
    <3>4. Range(order) = Reachable(succ)
      BY <1>1, LayoutIsComplete DEF EveryBlockOnce
    <3> QED
      BY <3>3, <3>4
  <2>3. NextTo(order, p, FalseSucc(succ, p))
    BY <1>1, <2>1, <2>2 DEF Laid, FalseFollows
  <2> QED
    BY <2>3 DEF NextTo, Adjacent
<1>2. LayoutInv => (status = "done" => \A p \in Reachable(succ) :
                      Conditional(p) /\ loop[FalseSucc(succ, p)] = Null => Adjacent(p, FalseSucc(succ, p)))
  BY <1>1
<1> QED
  BY <1>2, LayoutInvariant, PTL

-----------------------------------------------------------------------------
(***************************************************************************)
(* The layout of a structured graph.  When a loop is laid out, the blocks  *)
(* of it that were placed before belong to loops inside it, which are      *)
(* complete; so its own blocks are placed in that call, the source of the  *)
(* back edge last, and what else is missing comes with the loops inside.   *)
(***************************************************************************)
\* What LoopAnalyzer leaves behind in a structured graph.
LoopsNested ==
  LET F == Found(loops, root)
  IN  /\ \A l \in F : /\ loops[l].blocks # <<>> /\ IsInjective(loops[l].blocks)
                      /\ Head(loops[l].blocks) = loops[l].source
                      /\ loop[loops[l].source] = l /\ loop[loops[l].header] = l
      /\ \A l \in F : \A b \in BodyOf(l) : loop[b] # Null /\ BodyOf(loop[b]) \subseteq BodyOf(l)
      /\ \A b \in Block : loop[b] # Null => b \in BodyOf(loop[b])
      /\ \A l, m \in F : /\ BodyOf(l) = BodyOf(m) => l = m
                         /\ \/ BodyOf(l) \cap BodyOf(m) = {}
                            \/ BodyOf(l) \subseteq BodyOf(m)
                            \/ BodyOf(m) \subseteq BodyOf(l)
      /\ \A l \in F : loops[l].outer = root => \A m \in F \ {l} : ~(BodyOf(l) \subseteq BodyOf(m))
      /\ \A l \in F : loops[l].inner = <<>> => \A b \in BodyOf(l) : loop[b] = l

\* The outermost and the innermost loops.
Compact(l) == loops[l].outer = root \/ loops[l].inner = <<>>

\* The loops inside l, and l.
Inside(l) == {k \in Found(loops, root) : BodyOf(k) \subseteq BodyOf(l)}

\* If a block of loop k itself was placed, the whole loop was, its source last;
\* the blocks of outermost and innermost loops without a gap.
Settled(q, k) ==
  (\E b \in Range(q) : loop[b] = k) =>
    \E i \in DOMAIN q : /\ q[i] = loops[k].source /\ BodyOf(k) \subseteq {q[j] : j \in 1 .. i}
                        /\ Compact(k) => \E h \in 1 .. i : q[h] = loops[k].header /\ BodyOf(k) = {q[j] : j \in h .. i}

\* A block of a loop does not come directly after a branch whose true successor it is.
TrueTurned(g, q) ==
  \A p, b \in Block : NextTo(q, p, b) /\ Conditional(p) /\ TrueSucc(g, p) = b => loop[b] = Null

\* Between the blocks of the reverse post-order loops are placed as a whole.
Saturated(q) == \A l \in Found(loops, root) : BodyOf(l) \cap Range(q) = {} \/ BodyOf(l) \subseteq Range(q)

\* The header of a loop comes before its other blocks.
HeadersFirst(q) ==
  \A i, j \in DOMAIN q : \A l \in Found(loops, root) : q[i] \in BodyOf(l) /\ q[j] = loops[l].header => j <= i

\* There is a loop for every back edge, and what was collected for it is its natural loop.
LoopsKnown ==
  LET F == Found(loops, root)
  IN  /\ {EdgeOf(loops[l]) : l \in F} = BackEdges
      /\ \A l \in F : loops[l].blocks # <<>> => BodyOf(l) = NaturalLoop(succ, loops[l].source, loops[l].header)

NestedInv ==
  /\ pc # "layout" => TreeInv
  /\ pc = "layout" => LoopsKnown
  /\ pc = "layout" /\ Structured => /\ LoopsNested /\ HeadersFirst(rpo)
                                    /\ status \in {"order", "done", "used"} =>
                                         /\ Saturated(order) /\ TrueTurned(succ, order)
                                         /\ \A l \in Found(loops, root) : Settled(order, l)

-----------------------------------------------------------------------------
\* Swapping successors changes nothing that the order of the successors does not.
LEMMA SameReachFrom ==
  ASSUME NEW g, NEW h, SameEdges(g, h), NEW P, NEW a \in Block
  PROVE  ReachFrom(g, P, a) = ReachFrom(h, P, a)
<1>1. ASSUME NEW S \in SUBSET Block PROVE Closed(g, P, a, S) <=> Closed(h, P, a, S)
  BY DEF Closed, SameEdges
<1>2. PICK R, T : R = ReachFrom(g, P, a) /\ T = ReachFrom(h, P, a)
  OBVIOUS
<1>3. /\ R \in SUBSET Block /\ Closed(g, P, a, R)
      /\ T \in SUBSET Block /\ Closed(h, P, a, T)
  BY <1>2, ReachLeast
<1>4. R \subseteq T /\ T \subseteq R
  BY <1>1, <1>2, <1>3, ReachOn
<1> QED
  BY <1>2, <1>4

LEMMA SameDominance ==
  ASSUME NEW g, NEW h, SameEdges(g, h)
  PROVE  /\ \A b : StrictDominators(g, b) = StrictDominators(h, b)
         /\ \A s, e : NaturalLoop(g, s, e) = NaturalLoop(h, s, e)
<1>1. Root \in Block
  BY SizeAssumption DEF Root, Block
<1>2. Reachable(g) = Reachable(h) /\ Reachable(g) \subseteq Block
  BY <1>1, SameReach, ReachSelf DEF Reachable, Reach
<1>3. \A d, b : Dominates(g, d, b) <=> Dominates(h, d, b)
  BY <1>1, SameReachFrom DEF Dominates, Reach
<1>4. \A b : StrictDominators(g, b) = StrictDominators(h, b)
  BY <1>2, <1>3 DEF StrictDominators
<1>5. ASSUME NEW s, NEW e PROVE NaturalLoop(g, s, e) = NaturalLoop(h, s, e)
  <2>1. \A b \in Reachable(g) : ReachFrom(g, Block \ {e}, b) = ReachFrom(h, Block \ {e}, b)
    BY <1>2, SameReachFrom
  <2> QED
    BY <1>2, <2>1 DEF NaturalLoop
<1> QED
  BY <1>4, <1>5

LEMMA SameStructure ==
  ASSUME succ \in Cfgs, SameEdges(succ, succ')
  PROVE  Structured' = Structured
<1>1. Reachable(succ') = Reachable(succ) /\ Reachable(succ) \subseteq Block
  BY SameReach, ReachableFacts
<1>2. /\ \A b : StrictDominators(succ', b) = StrictDominators(succ, b)
      /\ \A s, e : NaturalLoop(succ', s, e) = NaturalLoop(succ, s, e)
  BY SameDominance
<1>3. \A b \in Reachable(succ) : SuccSet(succ', b) = SuccSet(succ, b)
  BY <1>1 DEF SameEdges
<1>4. BackEdges' = BackEdges
  BY <1>1, <1>2, <1>3 DEF BackEdges, CheckDominance
<1>5. NaturalLoops' = NaturalLoops
  BY <1>2, <1>4 DEF NaturalLoops
<1> QED
  BY <1>5 DEF Structured

LEMMA KnownLoops ==
  ASSUME succ \in Cfgs, SameEdges(succ, succ'), loops' = loops, root' = root, LoopsKnown
  PROVE  LoopsKnown'
<1>1. Reachable(succ') = Reachable(succ) /\ Reachable(succ) \subseteq Block
  BY SameReach, ReachableFacts
<1>2. /\ \A b : StrictDominators(succ', b) = StrictDominators(succ, b)
      /\ \A s, e : NaturalLoop(succ', s, e) = NaturalLoop(succ, s, e)
  BY SameDominance
<1>3. \A b \in Reachable(succ) : SuccSet(succ', b) = SuccSet(succ, b)
  BY <1>1 DEF SameEdges
<1>4. BackEdges' = BackEdges
  BY <1>1, <1>2, <1>3 DEF BackEdges, CheckDominance
<1>5. Found(loops, root)' = Found(loops, root) /\ \A l : BodyOf(l)' = BodyOf(l)
  BY DEF Found, BodyOf
<1> QED
  BY <1>2, <1>4, <1>5 DEF LoopsKnown, EdgeOf

\* A loop without inner loops has no loop inside it.
LEMMA InnermostIsAlone ==
  ASSUME LoopInv, TreeInv, pc = "done", Structured, NEW l \in Found(loops, root), loops[l].inner = <<>>,
         NEW m \in Found(loops, root) \ {l}
  PROVE  ~(In(loops[m]) \subseteq In(loops[l]))
<1>1. PICK F : F = Found(loops, root)
  OBVIOUS
<1>2. /\ succ \in Cfgs /\ Matched(loops, F) /\ Hanging(loops, F, root) /\ root # Null
      /\ (\A k \in F : loops[k].blocks # <<>>) /\ UnderRoot(loops, loop, F, root, Range(todo))
  BY <1>1 DEF TreeInv, TreeAt, LoopInv, Typed, Phase
<1> DEFINE S == {k \in F \ {l} : In(loops[k]) \subseteq In(loops[l])}
           size == [k \in S |-> Cardinality(In(loops[k]))]
<1>3. ASSUME S # {} PROVE FALSE
  <2>1. IsFiniteSet(Block) /\ Cardinality(Block) = N
    BY SizeAssumption, FS_Interval DEF Block
  <2>2. \A k \in F : In(loops[k]) \subseteq Block
    BY <1>2, StructuredLoops
  <2>3. \A k \in F : IsFiniteSet(In(loops[k])) /\ Cardinality(In(loops[k])) \in Nat /\ Cardinality(In(loops[k])) <= N
    BY <2>1, <2>2, FS_Subset, FS_CardinalityType
  <2>4. PICK k \in S : \A j \in S : Cardinality(In(loops[j])) <= Cardinality(In(loops[k]))
    <3> DEFINE T == {Cardinality(In(loops[j])) : j \in S}
    <3>1. T \in SUBSET (0 .. N) /\ T # {} /\ N \in Nat
      <4>1. \A j \in S : Cardinality(In(loops[j])) \in 0 .. N
        BY <2>3, SizeAssumption
      <4> QED
        BY <1>3, <4>1, SizeAssumption
    <3>2. PICK n \in T : \A i \in T : i <= n
      <4> HIDE DEF T
      <4> QED
        BY <3>1, GreatestNumber
    <3> QED
      BY <3>2
  <2>5. loops[k].outer # Null /\ k \in F
    BY <1>1, <1>2 DEF Hanging
  <2>6. loops[k].outer # root
    BY <1>1, <1>2 DEF UnderRoot
  <2>7. PICK o : o = loops[k].outer
    OBVIOUS
  <2>8. k \in Range(loops[o].inner) /\ Around(loops, F, k, o)
    BY <1>2, <2>5, <2>6, <2>7 DEF Hanging
  <2>9. In(loops[o]) \subseteq In(loops[l]) /\ o \in F /\ o # k /\ In(loops[k]) \subseteq In(loops[o])
    BY <1>1, <2>8 DEF Around
  <2>10. o # l
    BY <2>8 DEF Range
  <2>11. In(loops[k]) # In(loops[o])
    BY <1>1, <1>2, <2>5, <2>9, StructuredLoops
  <2>12. Cardinality(In(loops[k])) < Cardinality(In(loops[o]))
    BY <2>3, <2>9, <2>11, FS_Subset
  <2>13. Cardinality(In(loops[o])) <= Cardinality(In(loops[k]))
    BY <2>4, <2>9, <2>10
  <2> QED
    BY <2>3, <2>5, <2>9, <2>12, <2>13
<1> QED
  BY <1>1, <1>3

\* In a structured graph the analysis leaves the loops as they are needed here.
LEMMA TreeReady == LoopInv /\ TreeInv /\ pc = "done" /\ Structured => LoopsNested
<1> SUFFICES ASSUME LoopInv, TreeInv, pc = "done", Structured PROVE LoopsNested
  OBVIOUS
<1>1. PICK F : F = Found(loops, root)
  OBVIOUS
<1>2. /\ succ \in Cfgs /\ Matched(loops, F) /\ Innermost(loops, loop, F) /\ (\A l \in F : loops[l].blocks # <<>>)
      /\ UnderRoot(loops, loop, F, root, Range(todo))
  BY <1>1 DEF TreeInv, TreeAt, LoopInv, Typed
<1>3. \A l \in F : Body(succ, loops[l])
  BY <1>1, <1>2 DEF LoopInv
<1>4. \A l \in F : BodyOf(l) = In(loops[l])
  BY <1>3 DEF Body, BodyOf, In
<1>5. ASSUME NEW l \in F
      PROVE  /\ loops[l].blocks # <<>> /\ IsInjective(loops[l].blocks) /\ Head(loops[l].blocks) = loops[l].source
             /\ loop[loops[l].source] = l /\ loop[loops[l].header] = l
  <2>1. \A b \in EndsOf(loops[l]) : loop[b] = l
    BY <1>2 DEF Innermost
  <2> QED
    BY <1>3, <2>1 DEF Body, EndsOf
<1>6. ASSUME NEW l \in F, NEW b \in BodyOf(l) PROVE loop[b] # Null /\ BodyOf(loop[b]) \subseteq BodyOf(l)
  <2>1. b \in Block /\ b \in In(loops[l])
    BY <1>2, <1>4, <1>6, StructuredLoops
  <2>2. loop[b] # Null
    BY <1>2, <2>1 DEF Innermost
  <2>3. loop[b] \in F /\ In(loops[loop[b]]) \subseteq In(loops[l])
    BY <1>2, <2>1, <2>2 DEF Innermost
  <2> QED
    BY <1>4, <2>2, <2>3
<1>7. ASSUME NEW b \in Block, loop[b] # Null PROVE b \in BodyOf(loop[b])
  BY <1>2, <1>4, <1>7 DEF Innermost
<1>8. ASSUME NEW l \in F, NEW m \in F
      PROVE  /\ BodyOf(l) = BodyOf(m) => l = m
             /\ \/ BodyOf(l) \cap BodyOf(m) = {}
                \/ BodyOf(l) \subseteq BodyOf(m)
                \/ BodyOf(m) \subseteq BodyOf(l)
  <2>1. l # m => /\ In(loops[l]) # In(loops[m])
                 /\ \/ In(loops[l]) \cap In(loops[m]) = {}
                    \/ In(loops[l]) \subseteq In(loops[m])
                    \/ In(loops[m]) \subseteq In(loops[l])
    BY <1>2, StructuredLoops
  <2>2. BodyOf(l) = In(loops[l]) /\ BodyOf(m) = In(loops[m])
    BY <1>4
  <2> QED
    BY <2>1, <2>2
<1>9. ASSUME NEW l \in F, loops[l].outer = root, NEW m \in F \ {l} PROVE ~(BodyOf(l) \subseteq BodyOf(m))
  BY <1>2, <1>4, <1>9 DEF UnderRoot
<1>10. ASSUME NEW l \in F, loops[l].inner = <<>>, NEW b \in BodyOf(l) PROVE loop[b] = l
  <2>1. b \in Block /\ b \in In(loops[l])
    BY <1>2, <1>4, <1>10, StructuredLoops
  <2>2. loop[b] # Null /\ BodyOf(loop[b]) \subseteq BodyOf(l)
    BY <1>6, <1>10
  <2>3. loop[b] \in F
    BY <1>2, <2>1, <2>2 DEF Innermost
  <2>4. In(loops[loop[b]]) \subseteq In(loops[l])
    BY <1>4, <2>2, <2>3
  <2> QED
    BY <1>1, <1>10, <2>3, <2>4, InnermostIsAlone
<1> QED
  BY <1>1, <1>5, <1>6, <1>7, <1>8, <1>9, <1>10 DEF LoopsNested

\* The loops of a structured graph, as far as the layout is concerned.
LEMMA NestedFacts ==
  ASSUME LoopsReady, LoopsNested, NEW l \in Found(loops, root)
  PROVE  /\ l \in DOMAIN loops /\ BodyOf(l) \subseteq Reachable(succ) /\ BodyOf(l) \subseteq Block
         /\ loops[l].source \in BodyOf(l) /\ loops[l].header \in BodyOf(l)
         /\ loop[loops[l].source] = l /\ loop[loops[l].header] = l
         /\ \A b \in BodyOf(l) : /\ loop[b] # Null /\ loop[b] \in Found(loops, root)
                                 /\ b \in BodyOf(loop[b]) /\ BodyOf(loop[b]) \subseteq BodyOf(l)
<1>1. PICK q \in Seq(Block) : q = loops[l].blocks
  <2>1. loops[l] \in Loop
    BY DEF LoopsReady, Found
  <2> QED
    BY <2>1 DEF Loop
<1>2. /\ q # <<>> /\ Head(q) = loops[l].source /\ Last(q) = loops[l].header /\ Range(q) \subseteq Reachable(succ)
      /\ loop[loops[l].source] = l /\ loop[loops[l].header] = l
  BY <1>1 DEF LoopsNested, LoopsReady
<1>3. Head(q) \in Range(q) /\ Last(q) \in Range(q)
  <2>1. Len(q) \in DOMAIN q /\ 1 \in DOMAIN q
    BY <1>2, EmptySeq
  <2> QED
    BY <2>1 DEF Last, Range
<1>4. BodyOf(l) = Range(q) /\ l \in DOMAIN loops /\ Reachable(succ) \subseteq Block
  BY <1>1, ReachableFacts DEF BodyOf, Found
<1>5. ASSUME NEW b \in BodyOf(l)
      PROVE  loop[b] # Null /\ loop[b] \in Found(loops, root) /\ b \in BodyOf(loop[b]) /\ BodyOf(loop[b]) \subseteq BodyOf(l)
  <2>1. b \in Block
    BY <1>2, <1>4
  <2>2. loop[b] # Null /\ BodyOf(loop[b]) \subseteq BodyOf(l)
    BY DEF LoopsNested
  <2> QED
    BY <2>1, <2>2, HeaderLoop DEF LoopsNested
<1> QED
  BY <1>2, <1>3, <1>4, <1>5

-----------------------------------------------------------------------------
\* q goes on after p.
Extends(p, q) == Len(p) <= Len(q) /\ \A i \in 1 .. Len(p) : q[i] = p[i]

LEMMA ExtendsFacts ==
  ASSUME NEW p \in Seq(Block), NEW q \in Seq(Block), Extends(p, q)
  PROVE  /\ Range(p) \subseteq Range(q) /\ \A i \in DOMAIN p : i \in DOMAIN q /\ q[i] = p[i]
         /\ \A r \in Seq(Block) : Extends(q, r) => Extends(p, r)
<1>1. PICK m \in Nat, n \in Nat : m = Len(p) /\ n = Len(q)
  OBVIOUS
<1>2. DOMAIN p = 1 .. m /\ DOMAIN q = 1 .. n /\ m <= n /\ \A i \in 1 .. m : q[i] = p[i]
  BY <1>1 DEF Extends
<1>3. \A i \in 1 .. m : i \in 1 .. n
  BY <1>2
<1>4. Range(p) \subseteq Range(q)
  BY <1>2, <1>3 DEF Range
<1>5. ASSUME NEW r \in Seq(Block), Extends(q, r) PROVE Extends(p, r)
  <2>1. Len(r) \in Nat /\ n <= Len(r) /\ \A i \in 1 .. n : r[i] = q[i]
    BY <1>1, <1>5 DEF Extends
  <2> QED
    BY <1>1, <1>2, <1>3, <2>1 DEF Extends
<1> QED
  BY <1>2, <1>3, <1>4, <1>5

LEMMA AppendExtends ==
  ASSUME NEW q \in Seq(Block), NEW b \in Block
  PROVE  /\ Extends(q, q) /\ Extends(q, Append(q, b))
         /\ \A a, c \in Block : NextTo(Append(q, b), a, c) => NextTo(q, a, c) \/ (q # <<>> /\ a = Last(q) /\ c = b)
<1>1. PICK n \in Nat : n = Len(q)
  OBVIOUS
<1>2. PICK o : o = Append(q, b)
  OBVIOUS
<1>3. Len(o) = n + 1 /\ o[n + 1] = b /\ \A i \in 1 .. n : o[i] = q[i]
  BY <1>1, <1>2
<1>4. Extends(q, q) /\ Extends(q, o)
  BY <1>1, <1>3 DEF Extends
<1>5. ASSUME NEW a \in Block, NEW c \in Block, NextTo(o, a, c) PROVE NextTo(q, a, c) \/ (q # <<>> /\ a = Last(q) /\ c = b)
  <2>1. PICK i \in 1 .. n : o[i] = a /\ o[i + 1] = c
    <3>1. PICK i \in 1 .. Len(o) - 1 : o[i] = a /\ o[i + 1] = c
      BY <1>5 DEF NextTo
    <3>2. i \in 1 .. n
      BY <1>3
    <3> QED
      BY <3>1, <3>2
  <2>2. CASE i = n
    <3>1. q # <<>>
      BY <1>1, <2>2
    <3> QED
      BY <1>1, <1>3, <2>1, <2>2, <3>1 DEF Last
  <2>3. CASE i # n
    <3>1. i \in 1 .. n - 1 /\ i + 1 \in 1 .. n
      BY <1>1, <2>3
    <3>2. q[i] = a /\ q[i + 1] = c
      BY <1>3, <2>1, <3>1
    <3> QED
      BY <1>1, <3>1, <3>2 DEF NextTo
  <2> QED
    BY <2>2, <2>3
<1> QED
  BY <1>2, <1>4, <1>5

\* A loop stays as it is when none of its own blocks is placed any more.
LEMMA SettledStays ==
  ASSUME NEW p \in Seq(Block), NEW q \in Seq(Block), Extends(p, q), NEW k, Settled(p, k),
         \A b \in Range(q) : loop[b] = k => b \in Range(p)
  PROVE  Settled(q, k)
<1> SUFFICES ASSUME NEW b \in Range(q), loop[b] = k PROVE Settled(q, k)
  BY DEF Settled
<1>1. PICK B, H, S : B = BodyOf(k) /\ H = loops[k].header /\ S = loops[k].source
  OBVIOUS
<1>2. PICK i \in DOMAIN p : /\ p[i] = S /\ B \subseteq {p[j] : j \in 1 .. i}
                            /\ Compact(k) => \E h \in 1 .. i : p[h] = H /\ B = {p[j] : j \in h .. i}
  BY <1>1 DEF Settled
<1>3. DOMAIN p = 1 .. Len(p) /\ Len(p) \in Nat /\ \A j \in DOMAIN p : j \in DOMAIN q /\ q[j] = p[j]
  BY ExtendsFacts
<1>4. \A j \in 1 .. i : j \in DOMAIN p
  BY <1>3
<1>5. {p[j] : j \in 1 .. i} = {q[j] : j \in 1 .. i}
  BY <1>3, <1>4
<1>6. ASSUME Compact(k) PROVE \E h \in 1 .. i : q[h] = H /\ B = {q[j] : j \in h .. i}
  <2>1. PICK h \in 1 .. i : p[h] = H /\ B = {p[j] : j \in h .. i}
    BY <1>2, <1>6
  <2>2. \A j \in h .. i : j \in 1 .. i
    BY <1>3
  <2>3. {p[j] : j \in h .. i} = {q[j] : j \in h .. i}
    BY <1>3, <1>4, <2>2
  <2> QED
    BY <1>3, <1>4, <2>1, <2>3
<1>7. i \in DOMAIN q /\ q[i] = S /\ B \subseteq {q[j] : j \in 1 .. i}
  BY <1>2, <1>3, <1>5
<1> QED
  BY <1>1, <1>6, <1>7 DEF Settled

\* Of a settled loop all is placed if one of its own blocks is.
LEMMA SettledWhole ==
  ASSUME NEW q \in Seq(Block), NEW k, Settled(q, k), NEW b \in Range(q), loop[b] = k
  PROVE  BodyOf(k) \subseteq Range(q)
<1>1. PICK i \in DOMAIN q : BodyOf(k) \subseteq {q[j] : j \in 1 .. i}
  BY DEF Settled
<1>2. \A j \in 1 .. i : j \in DOMAIN q
  OBVIOUS
<1> QED
  BY <1>1, <1>2 DEF Range

\* A loop is settled when its source takes its place as the last of its blocks.
LEMMA SourceSettles ==
  ASSUME NEW p \in Seq(Block), NEW q \in Seq(Block), NEW r \in Seq(Block), Extends(p, q), IsInjective(r),
         NEW k, r = Append(q, loops[k].source), BodyOf(k) \subseteq Range(r), Range(r) \subseteq Range(p) \cup BodyOf(k),
         Compact(k) => BodyOf(k) \cap Range(p) = {} /\ Len(p) + 1 \in DOMAIN r /\ r[Len(p) + 1] = loops[k].header
  PROVE  Settled(r, k)
<1>1. PICK B : B = BodyOf(k)
  OBVIOUS
<1>2. PICK m \in Nat, i \in Nat : m = Len(p) /\ i = Len(r)
  OBVIOUS
<1>3. DOMAIN p = 1 .. m /\ DOMAIN r = 1 .. i
  BY <1>2
<1>4. i \in DOMAIN r /\ r[i] = loops[k].source
  <2>1. i = Len(q) + 1 /\ Len(q) \in Nat
    BY <1>2
  <2> QED
    BY <1>2, <2>1
<1>5. Range(r) = {r[j] : j \in 1 .. i} /\ B \subseteq {r[j] : j \in 1 .. i}
  BY <1>1, <1>3 DEF Range
<1>6. \A j \in 1 .. m : j \in 1 .. i /\ r[j] = p[j]
  <2>1. Extends(q, r)
    <3>1. PICK s : s = loops[k].source
      OBVIOUS
    <3>2. s \in Block
      BY <1>3, <1>4, <3>1
    <3> QED
      BY <3>1, <3>2, AppendExtends
  <2>2. Extends(p, r)
    <3>1. \A o \in Seq(Block) : Extends(q, o) => Extends(p, o)
      BY ExtendsFacts
    <3> QED
      BY <2>1, <3>1
  <2> QED
    BY <1>3, <2>2, ExtendsFacts
<1>7. ASSUME Compact(k) PROVE \E h \in 1 .. i : r[h] = loops[k].header /\ B = {r[j] : j \in h .. i}
  <2>1. B \cap Range(p) = {} /\ m + 1 \in 1 .. i /\ r[m + 1] = loops[k].header
    BY <1>1, <1>2, <1>3, <1>7
  <2>2. ASSUME NEW b \in B PROVE \E j \in m + 1 .. i : b = r[j]
    <3>1. PICK j \in 1 .. i : b = r[j]
      BY <1>5
    <3>2. j \notin 1 .. m
      BY <1>3, <1>6, <2>1, <3>1 DEF Range
    <3>3. j \in m + 1 .. i
      BY <3>2
    <3> QED
      BY <3>1, <3>3
  <2>3. ASSUME NEW j \in m + 1 .. i PROVE r[j] \in B
    <3>1. j \in 1 .. i /\ \A x \in 1 .. m : x # j
      OBVIOUS
    <3>2. ASSUME NEW x \in 1 .. m, r[j] = p[x] PROVE FALSE
      <4>1. x \in DOMAIN r /\ j \in DOMAIN r /\ r[x] = r[j] /\ x # j
        BY <1>3, <1>6, <3>1, <3>2
      <4> QED
        BY <4>1 DEF IsInjective
    <3>3. r[j] \notin Range(p)
      BY <1>3, <3>2 DEF Range
    <3> QED
      BY <1>1, <1>5, <3>1, <3>3
  <2>4. B = {r[j] : j \in m + 1 .. i}
    BY <2>2, <2>3
  <2> QED
    BY <2>1, <2>4
<1> QED
  BY <1>1, <1>4, <1>5, <1>7 DEF Settled

-----------------------------------------------------------------------------
\* The last block that was placed is no branch whose true successor b is, so far
\* as p is concerned.
Turned(s, p, b) == Fine(s) /\ Conditional(p) /\ Follows(s, p) => TrueSucc(s.succ, p) # b

\* A condition is inverted for the last block only, and what comes before it has
\* its successor already.
LEMMA FixAfterTurns ==
  ASSUME NEW s \in LayoutKept, TrueTurned(s.succ, s.order), NEW p \in Block, NEW b \in Block,
         NEW t, t = FixAfter(s, p, b)
  PROVE  TrueTurned(t.succ, t.order) /\ Turned(t, p, b) /\ \A c \in Block : Turned(s, c, b) => Turned(t, c, b)
<1>1. s \in LayoutState /\ s.succ \in Cfgs /\ s.order \in Seq(Block) /\ SameEdges(succ, s.succ) /\ IsInjective(s.order)
  BY KeptFacts
<1>2. CASE t = s
  <2>1. ASSUME Fine(s), Conditional(p), Follows(s, p) PROVE TrueSucc(s.succ, p) # b
    <3> SUFFICES ASSUME TrueSucc(s.succ, p) = b PROVE FALSE
      OBVIOUS
    <3>1. s.order # <<>> /\ Inverts(s, p, b)
      BY <2>1 DEF Follows, Inverts
    <3>2. t.succ = [s.succ EXCEPT ![p] = Reverse(@)]
      BY <1>1, <2>1, <3>1 DEF FixAfter, LayoutState
    <3>3. PICK g \in Cfgs : g = s.succ
      BY <1>1
    <3>4. PICK h : h = t.succ
      OBVIOUS
    <3>5. Swapped(g, p, h)
      BY <3>2, <3>3, <3>4 DEF Swapped
    <3>6. Len(g[p]) = 2
      BY <1>1, <2>1, <3>3 DEF SameEdges, Conditional
    <3>7. h[p][1] = g[p][2] /\ 1 \in DOMAIN g[p] /\ 2 \in DOMAIN g[p]
      BY <3>3, <3>5, <3>6, SwapSuccs, SuccSeq
    <3>8. g[p][1] # g[p][2]
      BY <3>3, <3>7 DEF Cfgs, NoParallelEdges
    <3> QED
      BY <1>2, <3>3, <3>4, <3>7, <3>8
  <2> QED
    BY <1>2, <2>1 DEF Turned
<1>3. CASE t = Stop(s, "crash")
  <2>1. t.succ = s.succ /\ t.order = s.order /\ t.status = "crash"
    BY <1>1, <1>3 DEF Stop, LayoutState
  <2> QED
    BY <2>1 DEF Turned, Fine
<1>4. CASE Fine(s) /\ Conditional(p) /\ Inverts(s, p, b)
           /\ t = [s EXCEPT !.succ[p] = Reverse(@), !.inverted = IF p \in @ THEN @ \ {p} ELSE @ \cup {p}]
  <2>1. PICK g \in Cfgs : g = s.succ
    BY <1>1
  <2>2. PICK h : h = [g EXCEPT ![p] = Reverse(@)]
    OBVIOUS
  <2>3. t.succ = h /\ t.order = s.order /\ t.status = s.status
    BY <1>1, <1>4, <2>1, <2>2 DEF LayoutState
  <2>4. Swapped(g, p, h) /\ Len(g[p]) = 2
    BY <1>1, <1>4, <2>1, <2>2 DEF Swapped, SameEdges, Conditional
  <2>5. (\A c \in Block \ {p} : h[c] = g[c]) /\ h[p][1] = g[p][2] /\ 1 \in DOMAIN g[p] /\ 2 \in DOMAIN g[p]
    BY <2>4, SwapSuccs, SuccSeq
  <2>6. g[p][1] # g[p][2]
    BY <2>5 DEF Cfgs, NoParallelEdges
  <2>7. TrueSucc(h, p) # b
    BY <1>4, <2>1, <2>5, <2>6 DEF Inverts, TrueSucc
  <2>8. ASSUME NEW a \in Block, NEW c \in Block, NextTo(s.order, a, c), Conditional(a), TrueSucc(h, a) = c
        PROVE  loop[c] = Null
    <3>1. PICK n \in Nat : n = Len(s.order)
      BY <1>1
    <3>2. PICK i \in 1 .. n - 1 : s.order[i] = a /\ s.order[i + 1] = c
      BY <2>8, <3>1 DEF NextTo
    <3>3. a # p
      <4>1. i \in DOMAIN s.order /\ n \in DOMAIN s.order /\ i # n
        BY <1>1, <3>1
      <4>2. s.order[n] = p
        BY <1>4, <3>1 DEF Inverts, Follows, Last
      <4> QED
        BY <1>1, <3>2, <4>1, <4>2 DEF IsInjective
    <3>4. TrueSucc(g, a) = c
      BY <2>5, <2>8, <3>3 DEF TrueSucc
    <3> QED
      BY <2>1, <2>8, <3>4 DEF TrueTurned
  <2>9. TrueTurned(t.succ, t.order)
    BY <2>3, <2>8 DEF TrueTurned
  <2>10. \A c \in Block : c # p => TrueSucc(h, c) = TrueSucc(g, c)
    BY <2>5 DEF TrueSucc
  <2> QED
    BY <2>1, <2>3, <2>7, <2>9, <2>10 DEF Turned, Fine, Follows
<1> QED
  BY <1>2, <1>3, <1>4 DEF FixAfter

\* Before a block of a loop takes its place every branch to it is turned.
LEMMA FixTurns ==
  ASSUME LoopsReady, NEW b \in Reachable(succ), loop[b] # Null, NEW s \in LayoutKept, FirstIsRoot(s, b),
         TrueTurned(s.succ, s.order), NEW t, t = FixFalseBranchOrder(s, b)
  PROVE  TrueTurned(t.succ, t.order) /\ \A p \in Block : Turned(t, p, b)
<1> DEFINE f == [u \in LayoutState |-> [p \in Block |-> FixAfter(u, p, b)]]
           P == {u \in LaidSince(s) : u.order = s.order /\ TrueTurned(u.succ, u.order)}
           G == [p \in Block |-> {u \in LayoutState : Turned(u, p, b)}]
<1>1. PICK q : q = Preds(succ, b)
  OBVIOUS
<1>2. b \in Block /\ q \in Seq(Block) /\ Range(q) \subseteq Block /\ \A p \in Block : p \in Range(q) <=> b \in SuccSet(succ, p)
  BY <1>1, PredsReachable, ReachableFacts
<1>3. Visitor(f, LayoutState, Block)
  BY <1>2, FixAfterType DEF Visitor
<1>4. P \in SUBSET LayoutState /\ s \in P
  BY DEF LaidSince, LayoutKept
<1>5. ASSUME NEW u \in P, NEW p \in Range(q)
      PROVE  /\ f[u][p] \in P /\ Turned(f[u][p], p, b)
             /\ \A c \in Block : Turned(u, c, b) => Turned(f[u][p], c, b)
  <2>1. u \in LayoutKept /\ u \in LayoutState /\ u.order = s.order /\ TrueTurned(u.succ, u.order) /\ (Fine(u) => Fine(s))
    BY <1>4 DEF LaidSince
  <2>2. FirstIsRoot(u, b)
    BY <2>1 DEF FirstIsRoot
  <2>3. PICK v : v = FixAfter(u, p, b)
    OBVIOUS
  <2>4. v \in LaidSince(u) /\ v.order = u.order
    BY <1>1, <2>1, <2>2, <2>3, FixAfterKeeps
  <2>5. TrueTurned(v.succ, v.order) /\ Turned(v, p, b) /\ \A c \in Block : Turned(u, c, b) => Turned(v, c, b)
    BY <1>2, <2>1, <2>3, FixAfterTurns
  <2>6. v \in P
    BY <2>1, <2>4, <2>5 DEF LaidSince
  <2>7. f[u][p] = v
    BY <1>2, <2>1, <2>3
  <2> QED
    BY <2>5, <2>6, <2>7
<1>6. t = EachOf(f, q, s)
  BY <1>1 DEF FixFalseBranchOrder
<1> HIDE DEF f, P
<1>7. t \in P
  BY <1>2, <1>3, <1>4, <1>5, <1>6, EachOfKeeps
<1>8. \A p \in Range(q) : t \in G[p]
  <2>1. \A u \in P : \A p \in Range(q) : f[u][p] \in P
    BY <1>5
  <2>2. \A u \in P : \A p \in Range(q) : f[u][p] \in G[p]
    BY <1>2, <1>4, <1>5
  <2>3. \A u \in P : \A p, c \in Range(q) : u \in G[c] => f[u][p] \in G[c]
    BY <1>2, <1>4, <1>5
  <2> HIDE DEF G
  <2>4. \A p \in Range(q) : EachOf(f, q, s) \in G[p]
    BY <1>2, <1>3, <1>4, <2>1, <2>2, <2>3, EachOfBrings
  <2> QED
    BY <1>6, <2>4
<1>9. ASSUME NEW p \in Block PROVE Turned(t, p, b)
  <2>1. CASE b \in SuccSet(succ, p)
    BY <1>2, <1>8, <2>1
  <2>2. CASE b \notin SuccSet(succ, p)
    <3>1. t \in LayoutKept
      BY <1>7 DEF P, LaidSince
    <3>2. SuccSet(t.succ, p) = SuccSet(succ, p) /\ Len(t.succ[p]) = Len(succ[p]) /\ t.succ[p] \in Seq(Block)
      BY <3>1, KeptFacts, SuccSeq DEF SameEdges
    <3>3. ASSUME Conditional(p) PROVE TrueSucc(t.succ, p) \in SuccSet(succ, p)
      <4>1. 1 \in DOMAIN t.succ[p]
        BY <3>2, <3>3 DEF Conditional
      <4> QED
        BY <3>2, <4>1 DEF TrueSucc, SuccSet
    <3> QED
      BY <2>2, <3>3 DEF Turned
  <2> QED
    BY <2>1, <2>2
<1> QED
  BY <1>7, <1>9 DEF P

\* A block takes its place after a turned branch, or belongs to no loop.
LEMMA PlaceInTurned ==
  ASSUME NEW s \in LayoutKept, NEW b \in Block, TrueTurned(s.succ, s.order),
         loop[b] # Null => \A p \in Block : Turned(s, p, b),
         NEW t, t = PlaceIn(s, b)
  PROVE  TrueTurned(t.succ, t.order) /\ (Fine(t) => Fine(s) /\ t.order = Append(s.order, b))
<1>1. s \in LayoutState /\ s.order \in Seq(Block)
  BY KeptFacts
<1>2. CASE ~Fine(s)
  BY <1>2 DEF PlaceIn
<1>3. CASE Fine(s)
  <2>1. t.succ = s.succ /\ t.order = Append(s.order, b)
    BY <1>1, <1>3 DEF PlaceIn, LayoutState
  <2>2. ASSUME NEW a \in Block, NEW c \in Block, NextTo(t.order, a, c), Conditional(a), TrueSucc(s.succ, a) = c
        PROVE  loop[c] = Null
    <3>1. CASE NextTo(s.order, a, c)
      BY <2>2, <3>1 DEF TrueTurned
    <3>2. CASE s.order # <<>> /\ a = Last(s.order) /\ c = b
      BY <1>3, <2>2, <3>2 DEF Turned, Follows
    <3> QED
      BY <1>1, <2>1, <2>2, <3>1, <3>2, AppendExtends
  <2> QED
    BY <1>3, <2>1, <2>2 DEF TrueTurned
<1> QED
  BY <1>2, <1>3

-----------------------------------------------------------------------------
(***************************************************************************)
(* A call of ProccessLoop for a loop of a structured graph.                *)
(***************************************************************************)
\* All of loop l was placed, or nothing.
Whole(q, l) == BodyOf(l) \cap Range(q) = {} \/ BodyOf(l) \subseteq Range(q)

SettledIn(q, l) == \A k \in Inside(l) : Settled(q, k)

\* The loop l may be laid out in s.
Awaits(s, l) == /\ TrueTurned(s.succ, s.order)
                /\ Fine(s) => SettledIn(s.order, l) /\ (Compact(l) => Whole(s.order, l))

\* In t it was laid out, and nothing else.
LaidOut(s, l, t) == /\ TrueTurned(t.succ, t.order)
                    /\ Fine(t) => /\ Extends(s.order, t.order) /\ SettledIn(t.order, l)
                                  /\ Range(t.order) = Range(s.order) \cup BodyOf(l)

\* A call is right for loop l.
CallRight(f, l) == \A s \in LayoutKept : Awaits(s, l) /\ FirstIsRoot(s, loops[l].header) => LaidOut(s, l, f[s][l])

\* A call is right for the loops inside l.
InnerRight(f, l) == \A m \in Found(loops, root) \ {l} : BodyOf(m) \subseteq BodyOf(l) => CallRight(f, m)

\* The call has come by block b of loop l.
Seen(q, l, b) == /\ loop[b] = l => b \in Range(q)
                 /\ IsLoopHeader(b) /\ loop[b] # l => BodyOf(loop[b]) \subseteq Range(q)

\* A call for loop l that began in s has come by the blocks in B when it is in t.
Visited(s, l, B, t) ==
  /\ TrueTurned(t.succ, t.order)
  /\ Fine(t) => /\ Extends(s.order, t.order) /\ Range(t.order) \subseteq Range(s.order) \cup BodyOf(l)
                /\ \A b \in B : Seen(t.order, l, b)
                /\ \A k \in Inside(l) \ {l} : Settled(t.order, k)
                /\ \A b \in Range(t.order) \ Range(s.order) : loop[b] = l => b \in B
                /\ B # {} /\ BodyOf(l) \cap Range(s.order) = {} =>
                     Len(s.order) + 1 \in DOMAIN t.order /\ t.order[Len(s.order) + 1] = loops[l].header

\* Block b of loop l itself was not placed in t and comes last in u.
Appended(l, b, t, u) == loop[b] = l /\ b \notin Range(t.order) /\ Fine(u) => u.order = Append(t.order, b)

\* A loop inside another one has fewer blocks.
LEMMA InnerIsSmaller ==
  ASSUME LoopsReady, LoopsNested, NEW l \in Found(loops, root), NEW m \in Found(loops, root),
         BodyOf(m) \subseteq BodyOf(l), m # l
  PROVE  /\ ~(BodyOf(l) \subseteq BodyOf(m)) /\ loops[m].outer # root /\ Inside(m) \subseteq Inside(l) \ {l}
         /\ Cardinality(BodyOf(m)) \in Nat /\ Cardinality(BodyOf(l)) \in Nat /\ Cardinality(BodyOf(m)) < Cardinality(BodyOf(l))
         /\ Cardinality(BodyOf(l)) <= N
<1>1. IsFiniteSet(Block) /\ Cardinality(Block) = N /\ N \in Nat
  BY SizeAssumption, FS_Interval DEF Block
<1>2. BodyOf(l) \subseteq Block /\ BodyOf(m) \subseteq Block
  BY NestedFacts
<1>3. BodyOf(l) # BodyOf(m)
  BY DEF LoopsNested
<1>4. ~(BodyOf(l) \subseteq BodyOf(m))
  BY <1>3
<1>5. /\ IsFiniteSet(BodyOf(l)) /\ IsFiniteSet(BodyOf(m)) /\ Cardinality(BodyOf(l)) <= N
  BY <1>1, <1>2, FS_Subset
<1>6. Cardinality(BodyOf(l)) \in Nat /\ Cardinality(BodyOf(m)) \in Nat
  BY <1>5, FS_CardinalityType
<1>7. Cardinality(BodyOf(m)) <= Cardinality(BodyOf(l)) /\ Cardinality(BodyOf(m)) # Cardinality(BodyOf(l))
  BY <1>3, <1>5, FS_Subset
<1>8. loops[m].outer # root
  BY DEF LoopsNested
<1>9. Inside(m) \subseteq Inside(l) \ {l}
  BY <1>4 DEF Inside
<1> QED
  BY <1>4, <1>5, <1>6, <1>7, <1>8, <1>9

\* The call comes by the header of a loop inside, which it lays out.
LEMMA InnerVisited ==
  ASSUME LoopsReady, LoopsNested, NEW l \in Found(loops, root), NEW s \in LayoutKept, NEW t \in LayoutKept,
         NEW B, B # {}, Visited(s, l, B, t), NEW b \in BodyOf(l), NEW m, m = loop[b], IsLoopHeader(b), m # l,
         NEW f, InnerRight(f, l), FirstIsRoot(t, b),
         NEW u \in LaidSince(t), u = f[t][m]
  PROVE  Visited(s, l, B \cup {b}, u)
<1>1. /\ m \in Found(loops, root) /\ BodyOf(m) \subseteq BodyOf(l) /\ loops[m].header = b /\ b \in Block
  BY NestedFacts DEF IsLoopHeader
<1>2. /\ ~(BodyOf(l) \subseteq BodyOf(m)) /\ loops[m].outer # root /\ Inside(m) \subseteq Inside(l) \ {l}
  BY <1>1, InnerIsSmaller
<1>3. u \in LayoutKept /\ (Fine(u) => Fine(t))
  BY DEF LaidSince
<1>4. s.order \in Seq(Block) /\ t.order \in Seq(Block) /\ u.order \in Seq(Block)
  BY <1>3, KeptFacts
<1>5. Awaits(t, m)
  <2>1. TrueTurned(t.succ, t.order)
    BY DEF Visited
  <2>2. ASSUME Fine(t) PROVE SettledIn(t.order, m)
    BY <1>2, <2>2 DEF Visited, SettledIn
  <2>3. ASSUME Fine(t), Compact(m), NEW c \in BodyOf(m) \cap Range(t.order) PROVE BodyOf(m) \subseteq Range(t.order)
    <3>1. loop[c] = m
      BY <1>1, <1>2, <2>3 DEF Compact, LoopsNested
    <3>2. Settled(t.order, m)
      BY <1>1, <2>2, <2>3 DEF SettledIn, Inside
    <3> QED
      BY <1>4, <2>3, <3>1, <3>2, SettledWhole
  <2> QED
    BY <2>1, <2>2, <2>3 DEF Awaits, Whole
<1>6. LaidOut(t, m, u)
  BY <1>1, <1>5 DEF InnerRight, CallRight
<1>7. TrueTurned(u.succ, u.order)
  BY <1>6 DEF LaidOut
<1> SUFFICES ASSUME Fine(u) PROVE Visited(s, l, B \cup {b}, u)
  BY <1>7 DEF Visited
<1>8. /\ Extends(s.order, t.order) /\ Range(t.order) \subseteq Range(s.order) \cup BodyOf(l)
      /\ \A c \in B : Seen(t.order, l, c)
      /\ \A k \in Inside(l) \ {l} : Settled(t.order, k)
      /\ \A c \in Range(t.order) \ Range(s.order) : loop[c] = l => c \in B
      /\ BodyOf(l) \cap Range(s.order) = {} =>
           Len(s.order) + 1 \in DOMAIN t.order /\ t.order[Len(s.order) + 1] = loops[l].header
  BY <1>3 DEF Visited
<1>9. Extends(t.order, u.order) /\ SettledIn(u.order, m) /\ Range(u.order) = Range(t.order) \cup BodyOf(m)
  BY <1>6 DEF LaidOut
<1>10. Extends(s.order, u.order) /\ \A i \in DOMAIN t.order : i \in DOMAIN u.order /\ u.order[i] = t.order[i]
  <2>1. \A o \in Seq(Block) : Extends(t.order, o) => Extends(s.order, o)
    BY <1>4, <1>8, ExtendsFacts
  <2> QED
    BY <1>4, <1>9, <2>1, ExtendsFacts
<1>11. \A c \in B \cup {b} : Seen(u.order, l, c)
  <2>1. Range(t.order) \subseteq Range(u.order) /\ BodyOf(m) \subseteq Range(u.order)
    BY <1>9
  <2> QED
    BY <1>8, <2>1 DEF Seen
<1>12. \A c \in Range(u.order) \ Range(t.order) : c \in BodyOf(m) /\ loop[c] \in Inside(m)
  BY <1>1, <1>9, NestedFacts DEF Inside
<1>13. ASSUME NEW k \in Inside(l) \ {l} PROVE Settled(u.order, k)
  <2>1. CASE k \in Inside(m)
    BY <1>9, <2>1 DEF SettledIn
  <2>2. CASE k \notin Inside(m)
    <3>1. \A c \in Range(u.order) : loop[c] = k => c \in Range(t.order)
      BY <1>12, <2>2
    <3> QED
      BY <1>4, <1>8, <1>9, <3>1, SettledStays
  <2> QED
    BY <2>1, <2>2
<1>14. \A c \in Range(u.order) \ Range(s.order) : loop[c] = l => c \in B \cup {b}
  BY <1>2, <1>8, <1>12
<1> QED
  BY <1>1, <1>7, <1>8, <1>9, <1>10, <1>11, <1>13, <1>14 DEF Visited


\* The call comes by a block of the loop itself, which it places.
LEMMA OwnVisited ==
  ASSUME LoopsReady, LoopsNested, NEW l \in Found(loops, root), NEW s \in LayoutKept, NEW t \in LayoutKept,
         NEW B, NEW b \in BodyOf(l), B = {} => t = s /\ b = loops[l].header, Visited(s, l, B, t),
         loop[b] = l, NEW u \in LayoutKept, TrueTurned(u.succ, u.order), Fine(u) => Fine(t) /\ u.order = Append(t.order, b)
  PROVE  Visited(s, l, B \cup {b}, u)
<1> SUFFICES ASSUME Fine(u) PROVE Visited(s, l, B \cup {b}, u)
  BY DEF Visited
<1>1. s.order \in Seq(Block) /\ t.order \in Seq(Block) /\ u.order \in Seq(Block) /\ b \in Block
  BY KeptFacts, NestedFacts
<1>2. /\ Extends(s.order, t.order) /\ Range(t.order) \subseteq Range(s.order) \cup BodyOf(l)
      /\ \A c \in B : Seen(t.order, l, c)
      /\ \A k \in Inside(l) \ {l} : Settled(t.order, k)
      /\ \A c \in Range(t.order) \ Range(s.order) : loop[c] = l => c \in B
      /\ B # {} /\ BodyOf(l) \cap Range(s.order) = {} =>
           Len(s.order) + 1 \in DOMAIN t.order /\ t.order[Len(s.order) + 1] = loops[l].header
  BY DEF Visited
<1>3. PICK o : o = u.order
  OBVIOUS
<1>4. o = Append(t.order, b) /\ o \in Seq(Block) /\ Range(o) = Range(t.order) \cup {b} /\ Extends(t.order, o)
  <2>1. PICK p \in Seq(Block) : p = t.order
    BY <1>1
  <2>2. o = Append(p, b)
    BY <1>3, <2>1
  <2>3. o \in Seq(Block) /\ Range(o) = Range(p) \cup {b}
    BY <1>1, <2>2, AppendMembers
  <2>4. Extends(p, o)
    BY <1>1, <2>2, AppendExtends
  <2> QED
    BY <2>1, <2>2, <2>3, <2>4
<1>5. Extends(s.order, o) /\ \A i \in DOMAIN t.order : i \in DOMAIN o /\ o[i] = t.order[i]
  <2>1. \A r \in Seq(Block) : Extends(t.order, r) => Extends(s.order, r)
    BY <1>1, <1>2, ExtendsFacts
  <2>2. \A i \in DOMAIN t.order : i \in DOMAIN o /\ o[i] = t.order[i]
    BY <1>1, <1>4, ExtendsFacts
  <2> QED
    BY <1>4, <2>1, <2>2
<1>6. \A c \in B \cup {b} : Seen(o, l, c)
  BY <1>2, <1>4 DEF Seen
<1>7. ASSUME NEW k \in Inside(l) \ {l} PROVE Settled(o, k)
  <2>1. \A c \in Range(o) : loop[c] = k => c \in Range(t.order)
    BY <1>4
  <2> QED
    BY <1>1, <1>2, <1>4, <2>1, SettledStays
<1>8. \A c \in Range(o) \ Range(s.order) : loop[c] = l => c \in B \cup {b}
  BY <1>2, <1>4
<1>9. ASSUME BodyOf(l) \cap Range(s.order) = {} PROVE Len(s.order) + 1 \in DOMAIN o /\ o[Len(s.order) + 1] = loops[l].header
  <2>1. CASE B = {}
    <3>1. o = Append(s.order, loops[l].header) /\ Len(s.order) \in Nat
      BY <1>1, <1>4, <2>1
    <3> QED
      BY <1>1, <3>1
  <2>2. CASE B # {}
    BY <1>2, <1>5, <1>9, <2>2
  <2> QED
    BY <2>1, <2>2
<1>10. Range(o) \subseteq Range(s.order) \cup BodyOf(l)
  BY <1>2, <1>4
<1> QED
  BY <1>3, <1>5, <1>6, <1>7, <1>8, <1>9, <1>10 DEF Visited

\* The call comes by a block that it leaves alone.
LEMMA SkipVisited ==
  ASSUME LoopsReady, LoopsNested, NEW l \in Found(loops, root), NEW s \in LayoutKept, NEW t \in LayoutKept,
         NEW B, NEW b \in BodyOf(l), B = {} => t = s /\ b = loops[l].header, Visited(s, l, B, t),
         ~(IsLoopHeader(b) /\ loop[b] # l), loop[b] = l => b \in Range(t.order)
  PROVE  Visited(s, l, B \cup {b}, t)
<1>1. Seen(t.order, l, b)
  BY DEF Seen
<1>2. BodyOf(l) \cap Range(s.order) = {} => B # {}
  BY NestedFacts
<1> QED
  BY <1>1, <1>2 DEF Visited

\* One block of the loop.
LEMMA TakeBlockVisited ==
  ASSUME LoopsReady, LoopsNested, NEW l \in Found(loops, root), NEW s \in LayoutKept, NEW t \in LayoutKept,
         NEW B, NEW b \in BodyOf(l), B = {} => t = s /\ b = loops[l].header, Visited(s, l, B, t),
         NEW f, InnerRight(f, l), ProcessRight(f), FirstIsRoot(t, b), B # {} => Begun(t), NEW u, u = TakeBlock(f, t, l, b)
  PROVE  u \in LaidSince(t) /\ Visited(s, l, B \cup {b}, u) /\ Appended(l, b, t, u)
<1>1. b \in Reachable(succ) /\ b \in Block /\ loop[b] # Null
  BY NestedFacts
<1>2. IsLoopHeader(b) /\ loop[b] # l => B # {}
  BY NestedFacts
<1>3. u \in LaidSince(t)
  BY <1>1, <1>2, TakeBlockKeeps
<1>4. CASE IsLoopHeader(b) /\ loop[b] # l
  <2>1. u = f[t][loop[b]]
    BY <1>4 DEF TakeBlock
  <2>2. Visited(s, l, B \cup {b}, u)
    <3>1. PICK m : m = loop[b]
      OBVIOUS
    <3> QED
      BY <1>2, <1>3, <1>4, <2>1, <3>1, InnerVisited
  <2>3. Appended(l, b, t, u)
    <3>1. loop[b] # l
      BY <1>4
    <3> QED
      BY <3>1 DEF Appended
  <2> QED
    BY <1>3, <2>2, <2>3
<1>5. CASE ~(IsLoopHeader(b) /\ loop[b] # l) /\ ~Placed(t, b) /\ OwnBlock(b, l)
  <2>1. PICK v : v = FixFalseBranchOrder(t, b)
    OBVIOUS
  <2>2. v \in LaidSince(t) /\ v.order = t.order
    BY <1>1, <2>1, FixKeeps
  <2>3. TrueTurned(v.succ, v.order) /\ \A p \in Block : Turned(v, p, b)
    <3>1. TrueTurned(t.succ, t.order)
      BY DEF Visited
    <3> QED
      BY <1>1, <2>1, <3>1, FixTurns
  <2>4. u = PlaceIn(v, b)
    BY <1>5, <2>1 DEF TakeBlock
  <2>5. v \in LayoutKept /\ u \in LayoutKept /\ (Fine(v) => Fine(t))
    BY <1>3, <2>2 DEF LaidSince
  <2>6. TrueTurned(u.succ, u.order) /\ (Fine(u) => Fine(v) /\ u.order = Append(v.order, b))
    BY <1>1, <2>3, <2>4, <2>5, PlaceInTurned
  <2>7. Visited(s, l, B \cup {b}, u)
    BY <1>5, <2>2, <2>5, <2>6, OwnVisited DEF OwnBlock
  <2>8. Appended(l, b, t, u)
    BY <2>2, <2>6 DEF Appended
  <2> QED
    BY <1>3, <2>7, <2>8
<1>6. CASE ~(IsLoopHeader(b) /\ loop[b] # l) /\ ~(~Placed(t, b) /\ OwnBlock(b, l))
  <2>1. u = t
    BY <1>6 DEF TakeBlock
  <2>2. loop[b] = l => b \in Range(t.order)
    BY <1>6 DEF Placed, OwnBlock
  <2>3. Visited(s, l, B \cup {b}, t)
    BY <1>6, <2>2, SkipVisited
  <2>4. Appended(l, b, t, u)
    BY <2>2 DEF Appended
  <2> QED
    BY <1>3, <2>1, <2>3, <2>4
<1> QED
  BY <1>4, <1>5, <1>6

\* The list that a call goes through.
LEMMA FromHeaderNested ==
  ASSUME LoopsReady, LoopsNested, NEW l \in Found(loops, root), NEW q, q = FromHeader(l)
  PROVE  /\ q \in Seq(Block) /\ q # <<>> /\ Range(q) = BodyOf(l) /\ IsInjective(q)
         /\ q[1] = loops[l].header /\ q[Len(q)] = loops[l].source
<1>1. PICK p \in Seq(Block) : p = loops[l].blocks
  <2>1. loops[l] \in Loop
    BY DEF LoopsReady, Found
  <2> QED
    BY <2>1 DEF Loop
<1>2. p # <<>> /\ IsInjective(p) /\ Head(p) = loops[l].source /\ Last(p) = loops[l].header
  BY <1>1 DEF LoopsNested, LoopsReady
<1>3. q = Reverse(p)
  BY <1>1 DEF FromHeader
<1>4. q \in Seq(Block) /\ Range(q) = Range(p) /\ Len(q) = Len(p) /\ IsInjective(q) /\ q # <<>> /\ Head(q) = Last(p)
  BY <1>2, <1>3, ReverseFacts
<1>5. q[Len(q)] = p[1] /\ Len(p) \in Nat \ {0}
  <2>1. Len(p) \in Nat \ {0}
    BY <1>2, EmptySeq
  <2>2. q = [i \in 1 .. Len(p) |-> p[(Len(p) - i) + 1]]
    BY <1>3 DEF Reverse
  <2>3. Len(p) \in 1 .. Len(p) /\ (Len(p) - Len(p)) + 1 = 1
    BY <2>1
  <2> QED
    BY <1>4, <2>1, <2>2, <2>3
<1>6. q[1] = Head(q) /\ p[1] = Head(p)
  BY <1>2, <1>4
<1> QED
  BY <1>1, <1>2, <1>4, <1>5, <1>6 DEF BodyOf

\* A call that has come by some block has placed the header.
LEMMA VisitedBegun ==
  ASSUME LoopsReady, LoopsNested, NEW l \in Found(loops, root), NEW s, NEW B, NEW t, Visited(s, l, B, t), loops[l].header \in B
  PROVE  Begun(t)
<1>1. Fine(t) => loops[l].header \in Range(t.order)
  BY NestedFacts DEF Visited, Seen
<1> QED
  BY <1>1 DEF Begun, Range

\* Before a call has come by a block nothing has changed.
LEMMA VisitedNone ==
  ASSUME NEW l, NEW s \in LayoutKept, Awaits(s, l)
  PROVE  Visited(s, l, {}, s)
<1>1. PICK q \in Seq(Block) : q = s.order
  BY KeptFacts
<1>2. Extends(q, q)
  BY <1>1 DEF Extends
<1> QED
  BY <1>1, <1>2 DEF Visited, Awaits, SettledIn

\* A call that has come by all blocks has laid out the loop.
LEMMA VisitedAll ==
  ASSUME LoopsReady, LoopsNested, NEW l \in Found(loops, root), NEW s \in LayoutKept, NEW r \in LaidSince(s),
         NEW t \in LaidSince(r), Awaits(s, l), NEW B, Visited(s, l, B, r), loops[l].source \notin B,
         Visited(s, l, BodyOf(l), t), loops[l].source \notin Range(r.order) /\ Fine(t) => t.order = Append(r.order, loops[l].source)
  PROVE  LaidOut(s, l, t)
<1> SUFFICES ASSUME Fine(t) PROVE LaidOut(s, l, t)
  BY DEF Visited, LaidOut
<1>1. r \in LayoutKept /\ t \in LayoutKept /\ Fine(r) /\ Fine(s) /\ Range(s.order) \subseteq Range(t.order)
  BY DEF LaidSince
<1>2. s.order \in Seq(Block) /\ r.order \in Seq(Block) /\ t.order \in Seq(Block) /\ IsInjective(t.order)
  BY <1>1, KeptFacts
<1>3. /\ Extends(s.order, t.order) /\ Range(t.order) \subseteq Range(s.order) \cup BodyOf(l)
      /\ \A b \in BodyOf(l) : Seen(t.order, l, b)
      /\ \A k \in Inside(l) \ {l} : Settled(t.order, k)
      /\ BodyOf(l) # {} /\ BodyOf(l) \cap Range(s.order) = {} =>
           Len(s.order) + 1 \in DOMAIN t.order /\ t.order[Len(s.order) + 1] = loops[l].header
  BY DEF Visited
<1>4. Extends(s.order, r.order) /\ \A b \in Range(r.order) \ Range(s.order) : loop[b] = l => b \in B
  BY <1>1 DEF Visited
<1>5. loops[l].source \in BodyOf(l) /\ loop[loops[l].source] = l
  BY NestedFacts
<1>6. ASSUME NEW b \in BodyOf(l) PROVE b \in Range(t.order)
  <2>1. PICK m : m = loop[b]
    OBVIOUS
  <2>2. m \in Found(loops, root) /\ b \in BodyOf(m) /\ BodyOf(m) \subseteq BodyOf(l)
    BY <2>1, NestedFacts
  <2>3. PICK h : h = loops[m].header
    OBVIOUS
  <2>4. h \in BodyOf(m) /\ loop[h] = m
    BY <2>2, <2>3, NestedFacts
  <2>5. IsLoopHeader(h)
    BY <2>2, <2>3, <2>4, NestedFacts DEF IsLoopHeader
  <2> QED
    BY <1>3, <2>1, <2>2, <2>4, <2>5 DEF Seen
<1>7. Range(t.order) = Range(s.order) \cup BodyOf(l)
  BY <1>1, <1>3, <1>6
<1>8. Settled(t.order, l)
  <2>1. CASE \E c \in Range(s.order) : loop[c] = l
    <3>1. Settled(s.order, l)
      BY <1>1 DEF Awaits, SettledIn, Inside
    <3>2. BodyOf(l) \subseteq Range(s.order)
      BY <1>2, <2>1, <3>1, SettledWhole
    <3>3. Range(t.order) = Range(s.order)
      BY <1>7, <3>2
    <3> QED
      BY <1>2, <1>3, <3>1, <3>3, SettledStays
  <2>2. CASE \A c \in Range(s.order) : loop[c] # l
    <3>1. loops[l].source \notin Range(s.order) /\ loops[l].source \notin Range(r.order)
      BY <1>4, <1>5, <2>2
    <3>2. t.order = Append(r.order, loops[l].source)
      BY <3>1
    <3>3. ASSUME Compact(l) PROVE BodyOf(l) \cap Range(s.order) = {}
      BY <1>1, <1>5, <3>1, <3>3 DEF Awaits, Whole
    <3>4. PICK o \in Seq(Block) : o = t.order
      BY <1>2
    <3>5. PICK p \in Seq(Block) : p = s.order
      BY <1>2
    <3>6. PICK q \in Seq(Block) : q = r.order
      BY <1>2
    <3>7. Extends(p, q) /\ IsInjective(o) /\ o = Append(q, loops[l].source) /\ BodyOf(l) \subseteq Range(o)
          /\ Range(o) \subseteq Range(p) \cup BodyOf(l)
      BY <1>2, <1>4, <1>7, <3>2, <3>4, <3>5, <3>6
    <3>8. Compact(l) => BodyOf(l) \cap Range(p) = {} /\ Len(p) + 1 \in DOMAIN o /\ o[Len(p) + 1] = loops[l].header
      BY <1>3, <1>5, <3>3, <3>4, <3>5
    <3> QED
      BY <3>4, <3>7, <3>8, SourceSettles
  <2> QED
    BY <2>1, <2>2
<1>9. SettledIn(t.order, l)
  BY <1>3, <1>8 DEF SettledIn
<1> QED
  BY <1>3, <1>7, <1>9 DEF LaidOut, Visited

\* A call of ProccessLoop.
LEMMA TakeLoopNested ==
  ASSUME LoopsReady, LoopsNested, NEW f \in ProcessCalls, ProcessRight(f), NEW l \in Found(loops, root),
         InnerRight(f, l), NEW s \in LayoutKept, Awaits(s, l), FirstIsRoot(s, loops[l].header), NEW t, t = TakeLoop(f, s, l)
  PROVE  LaidOut(s, l, t)
<1> DEFINE g == [u \in LayoutState |-> [b \in Block |-> TakeBlock(f, u, l, b)]]
<1>1. PICK q : q = FromHeader(l)
  OBVIOUS
<1>2. /\ q \in Seq(Block) /\ q # <<>> /\ Range(q) = BodyOf(l) /\ IsInjective(q)
      /\ q[1] = loops[l].header /\ q[Len(q)] = loops[l].source
  BY <1>1, FromHeaderNested
<1>3. PICK K \in Nat : K + 1 = Len(q)
  <2>1. Len(q) \in Nat \ {0}
    BY <1>2, EmptySeq
  <2>2. Len(q) - 1 \in Nat /\ (Len(q) - 1) + 1 = Len(q)
    BY <2>1
  <2> QED
    BY <2>2
<1>4. DOMAIN q = 1 .. K + 1 /\ 1 \in 1 .. K + 1 /\ K + 1 \in 1 .. K + 1
  BY <1>2, <1>3
<1>5. PICK w : Walk(g, q, s, w)
  <2>1. Visitor(g, LayoutState, Block)
    BY TakeBlockType DEF Visitor
  <2>2. ListOver(Block, q) /\ s \in LayoutState
    BY <1>2 DEF ListOver, LayoutKept
  <2> HIDE DEF g
  <2> QED
    BY <2>1, <2>2, EachOfWalk
<1>6. w[0] = s /\ w[K + 1] = t /\ \A i \in 1 .. K + 1 : w[i] = g[w[i - 1]][q[i]]
  BY <1>1, <1>3, <1>5 DEF Walk, TakeLoop
<1> DEFINE C(i) == {q[j] : j \in 1 .. i}
           A(i) == {u \in LaidSince(s) : Visited(s, l, C(i), u)}
           P == [i \in 0 .. K |-> A(i)]
<1>7. ASSUME NEW i \in 1 .. K + 1, NEW u \in LaidSince(s), u = w[i - 1], Visited(s, l, C(i - 1), u)
      PROVE  /\ w[i] \in LaidSince(s) /\ w[i] \in LaidSince(u) /\ Visited(s, l, C(i), w[i])
             /\ Appended(l, q[i], u, w[i])
  <2>1. PICK b, B, v : b = q[i] /\ B = C(i - 1) /\ v = w[i]
    OBVIOUS
  <2>2. b \in BodyOf(l) /\ b \in Block
    BY <1>2, <1>4, <2>1 DEF Range
  <2>3. u \in LayoutKept /\ u \in LayoutState
    BY DEF LaidSince, LayoutKept
  <2>4. v = TakeBlock(f, u, l, b)
    BY <1>6, <1>7, <2>1, <2>2, <2>3
  <2>5. C(i) = B \cup {b}
    <3>1. \A j \in 1 .. i : j = i \/ j \in 1 .. i - 1
      OBVIOUS
    <3>2. i \in 1 .. i /\ \A j \in 1 .. i - 1 : j \in 1 .. i
      OBVIOUS
    <3> QED
      BY <2>1, <3>1, <3>2
  <2>6. Visited(s, l, B, u)
    BY <1>7, <2>1
  <2>7. CASE i = 1
    <3>1. B = {} /\ u = s /\ b = loops[l].header
      <4>1. i - 1 = 0 /\ 1 .. i - 1 = {}
        BY <2>7
      <4> QED
        BY <1>2, <1>6, <1>7, <2>1, <2>7, <4>1
    <3>2. FirstIsRoot(u, b)
      BY <3>1
    <3>3. v \in LaidSince(u) /\ Visited(s, l, B \cup {b}, v) /\ Appended(l, b, u, v)
      <4>1. (B = {} => u = s /\ b = loops[l].header) /\ (B # {} => Begun(u))
        BY <3>1
      <4>2. PICK x : x = TakeBlock(f, u, l, b)
        OBVIOUS
      <4>3. b \in BodyOf(l) /\ u \in LayoutKept
        BY <2>2, <2>3
      <4>4. x \in LaidSince(u)
        BY <2>6, <3>2, <4>1, <4>2, <4>3, TakeBlockVisited
      <4>5. Visited(s, l, B \cup {b}, x)
        BY <2>6, <3>2, <4>1, <4>2, <4>3, TakeBlockVisited
      <4>6. Appended(l, b, u, x)
        BY <2>6, <3>2, <4>1, <4>2, <4>3, TakeBlockVisited
      <4>7. v = x
        BY <2>4, <4>2
      <4> QED
        BY <4>4, <4>5, <4>6, <4>7
    <3> QED
      BY <2>1, <2>5, <3>1, <3>3
  <2>8. CASE i # 1
    <3>1. loops[l].header \in B
      <4>1. 1 \in 1 .. i - 1
        BY <2>8
      <4> QED
        BY <1>2, <2>1, <4>1
    <3>2. Begun(u)
      BY <2>6, <3>1, VisitedBegun
    <3>3. FirstIsRoot(u, b)
      BY <3>2 DEF Begun, FirstIsRoot
    <3>4. v \in LaidSince(u) /\ Visited(s, l, B \cup {b}, v) /\ Appended(l, b, u, v)
      <4>1. (B = {} => u = s /\ b = loops[l].header) /\ (B # {} => Begun(u))
        BY <3>1, <3>2
      <4>2. PICK x : x = TakeBlock(f, u, l, b)
        OBVIOUS
      <4>3. b \in BodyOf(l) /\ u \in LayoutKept
        BY <2>2, <2>3
      <4>4. x \in LaidSince(u)
        BY <2>6, <3>3, <4>1, <4>2, <4>3, TakeBlockVisited
      <4>5. Visited(s, l, B \cup {b}, x)
        BY <2>6, <3>3, <4>1, <4>2, <4>3, TakeBlockVisited
      <4>6. Appended(l, b, u, x)
        BY <2>6, <3>3, <4>1, <4>2, <4>3, TakeBlockVisited
      <4>7. v = x
        BY <2>4, <4>2
      <4> QED
        BY <4>4, <4>5, <4>6, <4>7
    <3>5. v \in LaidSince(s)
      BY <3>4 DEF LaidSince
    <3> QED
      BY <2>1, <2>5, <3>4, <3>5
  <2> QED
    BY <2>7, <2>8
<1>8. w[K] \in LaidSince(s) /\ Visited(s, l, C(K), w[K])
  <2>1. w[0] \in A(0)
    <3>1. C(0) = {}
      BY <1>3
    <3>2. Visited(s, l, {}, s) /\ s \in LaidSince(s)
      BY VisitedNone DEF LaidSince
    <3> QED
      BY <1>6, <3>1, <3>2
  <2>2. ASSUME NEW i \in 1 .. K, w[i - 1] \in A(i - 1) PROVE w[i] \in A(i)
    <3>1. i \in 1 .. K + 1
      BY <1>3
    <3>2. w[i - 1] \in LaidSince(s) /\ Visited(s, l, C(i - 1), w[i - 1])
      BY <2>2
    <3>3. w[i] \in LaidSince(s) /\ Visited(s, l, C(i), w[i])
      BY <1>7, <3>1, <3>2
    <3> QED
      BY <3>3
  <2>3. w[K] \in A(K)
    <3> HIDE DEF A
    <3>1. 0 \in 0 .. K /\ K \in 0 .. K /\ \A i \in 1 .. K : i \in 0 .. K /\ i - 1 \in 0 .. K
      BY <1>3
    <3>2. w[0] \in P[0] /\ \A i \in 1 .. K : w[i - 1] \in P[i - 1] => w[i] \in P[i]
      BY <2>1, <2>2, <3>1
    <3>3. w[K] \in P[K]
      <4> HIDE DEF P
      <4> QED
        BY <1>3, <3>2, LevelsKeep
    <3> QED
      BY <3>1, <3>3
  <2> QED
    BY <2>3
<1>9. PICK r : r = w[K]
  OBVIOUS
<1>10. r \in LaidSince(s) /\ Visited(s, l, C(K), r)
  BY <1>8, <1>9
<1>11. /\ t \in LaidSince(r) /\ Visited(s, l, C(K + 1), t)
       /\ Appended(l, loops[l].source, r, t)
  <2>1. K + 1 \in 1 .. K + 1 /\ (K + 1) - 1 = K
    BY <1>3
  <2>2. r = w[(K + 1) - 1] /\ Visited(s, l, C((K + 1) - 1), r)
    BY <1>9, <1>10, <2>1
  <2>3. q[K + 1] = loops[l].source
    BY <1>2, <1>3
  <2> HIDE DEF C
  <2>4. /\ w[K + 1] \in LaidSince(r) /\ Visited(s, l, C(K + 1), w[K + 1])
        /\ Appended(l, q[K + 1], r, w[K + 1])
    BY <1>7, <1>10, <2>1, <2>2
  <2> QED
    BY <1>6, <2>3, <2>4
<1>12. C(K + 1) = BodyOf(l)
  BY <1>2, <1>4 DEF Range
<1>13. loops[l].source \notin C(K)
  <2>1. ASSUME NEW j \in 1 .. K, q[j] = loops[l].source PROVE FALSE
    <3>1. j \in DOMAIN q /\ K + 1 \in DOMAIN q /\ j # K + 1
      BY <1>3, <1>4
    <3> QED
      BY <1>2, <1>3, <2>1, <3>1 DEF IsInjective
  <2> QED
    BY <2>1
<1>14. loop[loops[l].source] = l
  BY NestedFacts
<1> HIDE DEF C
<1> QED
  BY <1>10, <1>11, <1>12, <1>13, <1>14, VisitedAll DEF Appended

\* A call of ProccessLoop lays out any loop: the loops inside have fewer blocks.
LEMMA ProccessLoopNested ==
  ASSUME LoopsReady, LoopsNested, NEW l \in Found(loops, root)
  PROVE  CallRight(ProccessLoop, l)
<1>1. PICK v : Nesting(v)
  BY NestingExists
<1>2. N \in Nat /\ 0 \in 0 .. N /\ N \in 0 .. N
  BY SizeAssumption
<1>3. \A k \in Found(loops, root) : Cardinality(BodyOf(k)) \in 1 .. N
  <2>1. IsFiniteSet(Block) /\ Cardinality(Block) = N
    BY SizeAssumption, FS_Interval DEF Block
  <2>2. ASSUME NEW k \in Found(loops, root) PROVE Cardinality(BodyOf(k)) \in 1 .. N
    <3>1. BodyOf(k) \subseteq Block /\ BodyOf(k) # {}
      BY NestedFacts
    <3>2. IsFiniteSet(BodyOf(k)) /\ Cardinality(BodyOf(k)) <= N
      BY <2>1, <3>1, FS_Subset
    <3>3. Cardinality(BodyOf(k)) \in Nat /\ Cardinality(BodyOf(k)) # 0
      BY <3>1, <3>2, FS_CardinalityType, FS_EmptySet
    <3> QED
      BY <1>2, <3>2, <3>3
  <2> QED
    BY <2>2
<1> DEFINE P == [n \in 0 .. N |-> {f \in ProcessCalls : \A k \in Found(loops, root) : Cardinality(BodyOf(k)) <= n => CallRight(f, k)}]
<1>4. v[0] \in P[0]
  <2>1. v[0] \in ProcessCalls
    BY <1>1, <1>2 DEF Nesting
  <2>2. \A k \in Found(loops, root) : ~(Cardinality(BodyOf(k)) <= 0)
    BY <1>3
  <2> QED
    BY <1>2, <2>1, <2>2
<1>5. ASSUME NEW n \in 1 .. N, v[n - 1] \in P[n - 1] PROVE v[n] \in P[n]
  <2>1. n \in 0 .. N /\ n - 1 \in 0 .. N /\ n \in Nat
    BY <1>2
  <2>2. PICK f : f = v[n - 1]
    OBVIOUS
  <2>3. f \in ProcessCalls /\ ProcessRight(f) /\ v[n] \in ProcessCalls
    BY <1>1, <2>1, <2>2, NestingRight DEF Nesting
  <2>4. \A k \in Found(loops, root) : Cardinality(BodyOf(k)) <= n - 1 => CallRight(f, k)
    BY <1>5, <2>1, <2>2
  <2>5. ASSUME NEW k \in Found(loops, root), Cardinality(BodyOf(k)) <= n PROVE CallRight(v[n], k)
    <3>1. InnerRight(f, k)
      <4>1. ASSUME NEW m \in Found(loops, root) \ {k}, BodyOf(m) \subseteq BodyOf(k) PROVE CallRight(f, m)
        <5>1. Cardinality(BodyOf(m)) \in Nat /\ Cardinality(BodyOf(k)) \in Nat /\ Cardinality(BodyOf(m)) < Cardinality(BodyOf(k))
          BY <4>1, InnerIsSmaller
        <5>2. Cardinality(BodyOf(m)) <= n - 1
          BY <2>1, <2>5, <5>1
        <5> QED
          BY <2>4, <5>2
      <4> QED
        BY <4>1 DEF InnerRight
    <3>2. ASSUME NEW s \in LayoutKept, Awaits(s, k), FirstIsRoot(s, loops[k].header)
          PROVE  LaidOut(s, k, v[n][s][k])
      <4>1. s \in LayoutState /\ k \in DOMAIN loops
        BY DEF LayoutKept, Found
      <4>2. PICK t : t = TakeLoop(f, s, k)
        OBVIOUS
      <4>3. LaidOut(s, k, t)
        BY <2>3, <3>1, <3>2, <4>2, TakeLoopNested
      <4>4. v[n][s][k] = t
        BY <1>1, <2>2, <4>1, <4>2 DEF Nesting
      <4> QED
        BY <4>3, <4>4
    <3> QED
      BY <3>2 DEF CallRight
  <2> QED
    BY <2>1, <2>3, <2>5
<1>6. v[N] \in P[N]
  <2> HIDE DEF P
  <2> QED
    BY <1>2, <1>4, <1>5, LevelsKeep
<1>7. \A k \in Found(loops, root) : CallRight(v[N], k)
  BY <1>2, <1>3, <1>6
<1> QED
  BY <1>1, <1>7 DEF Nesting

-----------------------------------------------------------------------------
(***************************************************************************)
(* One block of the reverse post-order.                                    *)
(***************************************************************************)
SettledAll(s) == /\ Saturated(s.order) /\ TrueTurned(s.succ, s.order)
                 /\ \A l \in Found(loops, root) : Settled(s.order, l)

\* The blocks that are missing are still to come, a header before its loop.
StillToCome(s, r) == r \in Seq(Block) /\ r # <<>> /\ HeadersFirst(r) /\ Reachable(succ) \subseteq Range(s.order) \cup Range(r)

\* A loop that holds the next block begins with it, and none of it was placed.
LEMMA NextBeginsLoop ==
  ASSUME LoopsReady, LoopsNested, NEW s \in LayoutKept, Saturated(s.order), NEW r, StillToCome(s, r),
         ~Placed(s, Head(r)), NEW l \in Found(loops, root), Head(r) \in BodyOf(l)
  PROVE  BodyOf(l) \cap Range(s.order) = {} /\ loops[l].header = Head(r) /\ loop[Head(r)] = l
<1>1. PICK q \in Seq(Block) : q = r
  BY DEF StillToCome
<1>2. PICK b, h : b = Head(q) /\ h = loops[l].header
  OBVIOUS
<1>3. b \notin Range(s.order) /\ b \in BodyOf(l)
  BY <1>1, <1>2 DEF Placed
<1>4. BodyOf(l) \cap Range(s.order) = {}
  BY <1>3 DEF Saturated
<1>5. h \in BodyOf(l) /\ h \in Reachable(succ) /\ loop[h] = l
  BY <1>2, NestedFacts
<1>6. h \in Range(q)
  BY <1>1, <1>4, <1>5 DEF StillToCome
<1>7. PICK j \in DOMAIN q : q[j] = h
  BY <1>6 DEF Range
<1>8. 1 \in DOMAIN q /\ q[1] = b
  <2>1. q # <<>>
    BY <1>1 DEF StillToCome
  <2> QED
    BY <1>2, <2>1, EmptySeq
<1>9. j <= 1
  BY <1>1, <1>2, <1>3, <1>7, <1>8 DEF StillToCome, HeadersFirst
<1>10. j = 1
  BY <1>9
<1> QED
  BY <1>1, <1>2, <1>4, <1>5, <1>7, <1>8, <1>10

\* A header brings its loop.
LEMMA HeaderNested ==
  ASSUME LoopsReady, LoopsNested, NEW s \in LayoutKept, SettledAll(s), Fine(s), NEW r, StillToCome(s, r),
         NEW b, b = Head(r), b \in Reachable(succ), FirstIsRoot(s, b), ~Placed(s, b), IsLoopHeader(b),
         NEW t \in LaidSince(s), t = ProccessLoop[s][loop[b]], Fine(t)
  PROVE  SettledAll(t)
<1>1. PICK l : l = loop[b]
  OBVIOUS
<1>2. b \in Block /\ loop[b] # Null /\ loops[l].header = b
  BY <1>1, ReachableFacts DEF IsLoopHeader
<1>3. l \in Found(loops, root) /\ b \in BodyOf(l)
  BY <1>1, <1>2, HeaderLoop, NestedFacts
<1>4. Saturated(s.order) /\ TrueTurned(s.succ, s.order) /\ \A k \in Found(loops, root) : Settled(s.order, k)
  BY DEF SettledAll
<1>5. Awaits(s, l)
  BY <1>3, <1>4 DEF Awaits, SettledIn, Inside, Whole, Saturated
<1>6. LaidOut(s, l, t)
  BY <1>1, <1>2, <1>3, <1>5, ProccessLoopNested DEF CallRight
<1>7. /\ TrueTurned(t.succ, t.order) /\ Extends(s.order, t.order)
      /\ (\A k \in Inside(l) : Settled(t.order, k)) /\ Range(t.order) = Range(s.order) \cup BodyOf(l)
  BY <1>6 DEF LaidOut, SettledIn
<1>8. s.order \in Seq(Block) /\ t.order \in Seq(Block)
  BY KeptFacts DEF LaidSince
<1>9. Saturated(t.order)
  <2>1. ASSUME NEW m \in Found(loops, root) PROVE BodyOf(m) \cap Range(t.order) = {} \/ BodyOf(m) \subseteq Range(t.order)
    <3>1. CASE BodyOf(m) \subseteq Range(s.order)
      BY <1>7, <3>1
    <3>2. CASE BodyOf(m) \cap Range(s.order) = {}
      <4>1. CASE BodyOf(l) \cap BodyOf(m) = {}
        BY <1>7, <3>2, <4>1
      <4>2. CASE BodyOf(m) \subseteq BodyOf(l)
        BY <1>7, <4>2
      <4>3. CASE BodyOf(l) \subseteq BodyOf(m)
        <5>1. m = l
          BY <1>1, <1>3, <1>4, <4>3, NextBeginsLoop
        <5> QED
          BY <1>7, <5>1
      <4> QED
        BY <1>3, <4>1, <4>2, <4>3 DEF LoopsNested
    <3> QED
      BY <1>4, <3>1, <3>2 DEF Saturated
  <2> QED
    BY <2>1 DEF Saturated
<1>10. ASSUME NEW k \in Found(loops, root) PROVE Settled(t.order, k)
  <2>1. CASE k \in Inside(l)
    BY <1>7, <2>1
  <2>2. CASE k \notin Inside(l)
    <3>1. ASSUME NEW c \in Range(t.order), loop[c] = k PROVE c \in Range(s.order)
      <4>1. ASSUME c \in BodyOf(l) PROVE FALSE
        <5>1. BodyOf(k) \subseteq BodyOf(l)
          BY <1>3, <3>1, <4>1, NestedFacts
        <5> QED
          BY <2>2, <5>1 DEF Inside
      <4> QED
        BY <1>7, <4>1
    <3> QED
      BY <1>4, <1>7, <1>8, <3>1, SettledStays
  <2> QED
    BY <2>1, <2>2
<1> QED
  BY <1>7, <1>9, <1>10 DEF SettledAll

\* Any other block that was not placed belongs to no loop.
LEMMA SingleNested ==
  ASSUME LoopsReady, LoopsNested, NEW s \in LayoutKept, SettledAll(s), Fine(s), NEW r, StillToCome(s, r),
         NEW b, b = Head(r), b \in Reachable(succ), FirstIsRoot(s, b), ~Placed(s, b), ~IsLoopHeader(b),
         NEW t, t = PlaceIn(CheckFalseBranchOrder(s, b), b), Fine(t)
  PROVE  SettledAll(t)
<1>1. b \in Block
  BY ReachableFacts
<1>2. Saturated(s.order) /\ TrueTurned(s.succ, s.order) /\ \A k \in Found(loops, root) : Settled(s.order, k)
  BY DEF SettledAll
<1>3. \A l \in Found(loops, root) : b \notin BodyOf(l)
  <2>1. ASSUME NEW l \in Found(loops, root), b \in BodyOf(l) PROVE FALSE
    <3>1. loops[l].header = b /\ loop[b] = l
      BY <1>2, <2>1, NextBeginsLoop
    <3>2. loop[b] # Null
      BY <2>1, NestedFacts
    <3> QED
      BY <3>1, <3>2 DEF IsLoopHeader
  <2> QED
    BY <2>1
<1>4. loop[b] = Null
  <2>1. ASSUME loop[b] # Null PROVE FALSE
    <3>1. loop[b] \in Found(loops, root) /\ b \in BodyOf(loop[b])
      BY <1>1, <2>1, HeaderLoop DEF LoopsNested
    <3> QED
      BY <1>3, <3>1
  <2> QED
    BY <2>1
<1>5. PICK u : u = CheckFalseBranchOrder(s, b)
  OBVIOUS
<1>6. u \in LaidSince(s) /\ u.order = s.order /\ u.succ = s.succ
  BY <1>5, CheckKeeps
<1>7. u \in LayoutKept /\ TrueTurned(u.succ, u.order)
  BY <1>2, <1>6 DEF LaidSince
<1>8. TrueTurned(t.succ, t.order) /\ t.order = Append(u.order, b)
  BY <1>1, <1>4, <1>5, <1>7, PlaceInTurned
<1>9. PICK p \in Seq(Block) : p = s.order
  BY KeptFacts
<1>10. PICK q \in Seq(Block) : q = t.order
  <2>1. t.order = Append(p, b)
    BY <1>6, <1>8, <1>9
  <2>2. Append(p, b) \in Seq(Block)
    BY <1>1, <1>9
  <2> QED
    BY <2>1, <2>2
<1>11. Extends(p, q) /\ Range(q) = Range(p) \cup {b}
  BY <1>1, <1>6, <1>8, <1>9, <1>10, AppendExtends, AppendMembers
<1>12. Saturated(q)
  BY <1>2, <1>3, <1>9, <1>11 DEF Saturated
<1>13. ASSUME NEW k \in Found(loops, root) PROVE Settled(q, k)
  <2>1. \A c \in Range(q) : loop[c] = k => c \in Range(p)
    <3>1. k # Null
      BY DEF LoopsReady, Found, Null
    <3> QED
      BY <1>4, <1>11, <3>1
  <2> QED
    BY <1>2, <1>9, <1>11, <2>1, SettledStays
<1> QED
  BY <1>8, <1>10, <1>12, <1>13 DEF SettledAll

-----------------------------------------------------------------------------
(***************************************************************************)
(* The inductive invariant of the layout of structured graphs.             *)
(***************************************************************************)
\* The reverse post-order has the header of a loop first: it dominates the others.
LEMMA HeadersComeFirst ==
  ASSUME LoopInv, TreeInv, pc = "done", Structured
  PROVE  HeadersFirst(ReversePostOrder(succ))
<1>1. PICK q : q = PostOrder(succ)
  OBVIOUS
<1>2. succ \in Cfgs
  BY DEF LoopInv, Typed
<1>3. q \in Seq(Block) /\ IsInjective(q) /\ Range(q) = Reachable(succ) /\ InOrder(q)
  BY <1>1, <1>2, PostOrderFacts, PostOrderInOrder
<1>4. PICK n \in Nat : n = Len(q)
  BY <1>3
<1>5. PICK r : r = Reverse(q)
  OBVIOUS
<1>6. DOMAIN q = 1 .. n /\ DOMAIN r = 1 .. n /\ \A i \in 1 .. n : r[i] = q[(n - i) + 1] /\ (n - i) + 1 \in 1 .. n
  BY <1>3, <1>4, <1>5 DEF Reverse
<1>7. PICK F : F = Found(loops, root)
  OBVIOUS
<1>8. Matched(loops, F) /\ (\A l \in F : loops[l].blocks # <<>>)
  BY <1>7 DEF TreeInv, TreeAt
<1>9. ASSUME NEW i \in 1 .. n, NEW j \in 1 .. n, NEW l \in F, r[i] \in BodyOf(l), r[j] = loops[l].header
      PROVE  j <= i
  <2>1. PICK b, h : b = r[i] /\ h = loops[l].header
    OBVIOUS
  <2>2. PICK x \in 1 .. n, y \in 1 .. n : x = (n - i) + 1 /\ y = (n - j) + 1
    BY <1>6
  <2>3. q[x] = b /\ q[y] = h
    BY <1>6, <1>9, <2>1, <2>2
  <2>4. b \in In(loops[l])
    BY <1>7, <1>8, <1>9, <2>1 DEF LoopInv, Body, BodyOf, In
  <2>5. Dominates(succ, h, b)
    BY <1>2, <1>8, <2>1, <2>4, StructuredLoops
  <2>6. h \in Reachable(succ)
    BY <1>3, <1>6, <2>3 DEF Range
  <2>7. CASE h = b
    <3>1. x = y
      BY <1>3, <1>6, <2>3, <2>7 DEF IsInjective
    <3> QED
      BY <2>2, <3>1
  <2>8. CASE h # b
    <3>1. q[y] \in StrictDominators(succ, q[x])
      BY <2>3, <2>5, <2>6, <2>8 DEF StrictDominators
    <3>2. x < y
      BY <1>3, <1>6, <3>1 DEF InOrder
    <3> QED
      BY <2>2, <3>2
  <2> QED
    BY <2>7, <2>8
<1>10. HeadersFirst(r)
  BY <1>6, <1>7, <1>9 DEF HeadersFirst
<1> QED
  BY <1>1, <1>5, <1>10 DEF ReversePostOrder

LEMMA TailHeadersFirst ==
  ASSUME NEW q \in Seq(Block), q # <<>>, HeadersFirst(q)
  PROVE  HeadersFirst(Tail(q))
<1>1. PICK n \in Nat : n + 1 = Len(q)
  <2>1. Len(q) \in Nat \ {0}
    BY EmptySeq
  <2>2. Len(q) - 1 \in Nat /\ (Len(q) - 1) + 1 = Len(q)
    BY <2>1
  <2> QED
    BY <2>2
<1>2. PICK r : r = Tail(q)
  OBVIOUS
<1>3. DOMAIN q = 1 .. n + 1 /\ DOMAIN r = 1 .. n /\ \A i \in 1 .. n : r[i] = q[i + 1] /\ i + 1 \in 1 .. n + 1
  BY <1>1, <1>2
<1>4. ASSUME NEW i \in 1 .. n, NEW j \in 1 .. n, NEW l \in Found(loops, root), r[i] \in BodyOf(l), r[j] = loops[l].header
      PROVE  j <= i
  <2>1. j + 1 <= i + 1
    BY <1>3, <1>4 DEF HeadersFirst
  <2> QED
    BY <2>1
<1> QED
  BY <1>2, <1>3, <1>4 DEF HeadersFirst

\* None of it depends on the order of successors.
LEMMA SameNested ==
  ASSUME SameEdges(succ, succ'), loops' = loops, loop' = loop, root' = root, ends' = ends
  PROVE  /\ LoopsNested => LoopsNested'
         /\ \A q : (HeadersFirst(q) => HeadersFirst(q)') /\ (Saturated(q) => Saturated(q)')
         /\ \A q, k : Settled(q, k) => Settled(q, k)'
         /\ \A g, q : TrueTurned(g, q) => TrueTurned(g, q)'
<1>1. Found(loops, root)' = Found(loops, root) /\ \A k : BodyOf(k)' = BodyOf(k)
  BY DEF Found, BodyOf
<1>2. LoopsNested => LoopsNested'
  BY <1>1 DEF LoopsNested
<1>3. ASSUME NEW q PROVE (HeadersFirst(q) => HeadersFirst(q)') /\ (Saturated(q) => Saturated(q)')
  BY <1>1 DEF HeadersFirst, Saturated
<1>4. ASSUME NEW q, NEW k PROVE Settled(q, k) => Settled(q, k)'
  <2>1. Compact(k)' <=> Compact(k)
    BY DEF Compact
  <2> QED
    BY <1>1, <2>1 DEF Settled
<1>5. \A p \in Block : Conditional(p)' <=> Conditional(p)
  BY DEF Conditional, SameEdges
<1>6. ASSUME NEW g, NEW q PROVE TrueTurned(g, q) => TrueTurned(g, q)'
  BY <1>5 DEF TrueTurned
<1> QED
  BY <1>2, <1>3, <1>4, <1>6

LEMMA AnalyseNested == LayoutInv /\ NestedInv /\ Analyse => NestedInv'
<1> SUFFICES ASSUME LayoutInv, NestedInv, Analyse PROVE NestedInv'
  OBVIOUS
<1>1. pc # "layout" /\ pc' # "layout"
  BY DEF Analyse, CollectBackEdges, PopulateLoops, NewRoot, BuildLoopTree, SetRootLoop
<1>2. LoopInv /\ TreeInv
  BY <1>1 DEF LayoutInv, NestedInv
<1>3. TreeInv'
  BY <1>2, CollectTree, PopulateTree, NewRootTree, BuildTree, SetRootTree DEF Analyse
<1> QED
  BY <1>1, <1>3 DEF NestedInv

LEMMA BeginNested == LayoutInv /\ NestedInv /\ Begin => NestedInv'
<1> SUFFICES ASSUME LayoutInv, NestedInv, Begin PROVE NestedInv'
  OBVIOUS
<1>1. /\ succ' = succ /\ loops' = loops /\ loop' = loop /\ root' = root /\ order' = order /\ ends' = ends
      /\ pc = "done" /\ pc' = "layout" /\ rpo' = ReversePostOrder(succ)
  BY DEF Begin
<1>2. LoopInv /\ TreeInv /\ order = <<>>
  BY <1>1 DEF LayoutInv, NestedInv
<1>3. succ \in Cfgs /\ SameEdges(succ, succ')
  BY <1>1, <1>2 DEF LoopInv, Typed, SameEdges
<1>4. ASSUME Structured'
      PROVE  LoopsNested' /\ HeadersFirst(rpo)' /\ Saturated(order)' /\ TrueTurned(succ, order)'
             /\ (\A l \in Found(loops, root) : Settled(order, l))'
  <2>1. Structured
    BY <1>3, <1>4, SameStructure
  <2>2. LoopsNested /\ HeadersFirst(ReversePostOrder(succ))
    BY <1>1, <1>2, <2>1, TreeReady, HeadersComeFirst
  <2>3. PICK r : r = ReversePostOrder(succ)
    OBVIOUS
  <2>4. LoopsNested' /\ HeadersFirst(r)'
    BY <1>1, <1>3, <2>2, <2>3, SameNested
  <2>5. order' = <<>> /\ Range(order') = {} /\ DOMAIN order' = {} /\ Len(order') = 0
    BY <1>1, <1>2 DEF Range
  <2>6. Saturated(order)' /\ (\A l \in Found(loops, root) : Settled(order, l))'
    BY <2>5 DEF Saturated, Settled
  <2>7. \A a, b : ~NextTo(order', a, b)
    BY <2>5 DEF NextTo
  <2>8. TrueTurned(succ, order)'
    BY <2>7 DEF TrueTurned
  <2> QED
    BY <1>1, <2>3, <2>4, <2>6, <2>8
<1>5. LoopsKnown'
  <2>1. LoopsKnown
    BY <1>1, <1>2 DEF TreeInv, TreeAt, Matched, LoopInv, Body, BodyOf, LoopsKnown
  <2> QED
    BY <1>1, <1>3, <2>1, KnownLoops
<1> QED
  BY <1>1, <1>4, <1>5 DEF NestedInv

LEMMA PlaceNested == LayoutInv /\ NestedInv /\ Place => NestedInv'
<1> SUFFICES ASSUME LayoutInv, NestedInv, Place PROVE NestedInv'
  OBVIOUS
<1>1. status = "order" /\ rpo # <<>> /\ rpo' = Tail(rpo)
      /\ loops' = loops /\ loop' = loop /\ root' = root /\ pc' = pc /\ ends' = ends
  BY DEF Place
<1>2. pc = "layout" /\ LoopsReady /\ Laid /\ Progress
  BY <1>1 DEF LayoutInv
<1>3. PICK b : b = Head(rpo)
  OBVIOUS
<1>4. PICK s : s = [succ |-> succ, order |-> order, inverted |-> inverted, status |-> status]
  OBVIOUS
<1>5. PICK t : t = IF Placed(s, b) THEN s
                   ELSE IF IsLoopHeader(b) THEN ProccessLoop[s][loop[b]]
                   ELSE PlaceIn(CheckFalseBranchOrder(s, b), b)
  OBVIOUS
<1>6. succ' = t.succ /\ order' = t.order /\ inverted' = t.inverted /\ status' = t.status
  BY <1>3, <1>4, <1>5 DEF Place
<1>7. b \in Reachable(succ)
  BY <1>1, <1>2, <1>3, TailRange DEF Laid
<1>8. s.succ = succ /\ s.order = order /\ s.inverted = inverted /\ s.status = "order"
  BY <1>1, <1>4
<1>9. s \in LayoutKept
  <2>1. s \in LayoutState
    BY <1>1, <1>2, <1>4 DEF LayoutState, LoopsReady, Laid
  <2> QED
    BY <1>2, <1>8, <2>1 DEF LayoutKept, Laid, SameEdges
<1>10. FirstIsRoot(s, b) /\ Fine(s)
  BY <1>1, <1>2, <1>3, <1>8 DEF Progress, FirstIsRoot, Fine
<1>11. t \in LaidSince(s)
  BY <1>2, <1>5, <1>7, <1>9, <1>10, PlaceKeeps
<1>12. SameEdges(succ, t.succ) /\ t.status \in {"order", "misplaced", "nojump", "crash"}
  <2>1. t \in LayoutKept /\ t \in LayoutState
    BY <1>11 DEF LaidSince, LayoutKept
  <2> QED
    BY <2>1, KeptFacts DEF LayoutState
<1>13. succ \in Cfgs /\ SameEdges(succ, succ')
  BY <1>2, <1>6, <1>12 DEF LoopsReady
<1>14. ASSUME Structured'
       PROVE  LoopsNested' /\ HeadersFirst(rpo)'
              /\ (status' = "order" => Saturated(order)' /\ TrueTurned(succ, order)' /\ (\A l \in Found(loops, root) : Settled(order, l))')
  <2>1. Structured
    BY <1>13, <1>14, SameStructure
  <2>2. LoopsNested /\ HeadersFirst(rpo) /\ SettledAll(s)
    BY <1>1, <1>2, <1>8, <2>1 DEF NestedInv, SettledAll
  <2>3. PICK r : r = Tail(rpo)
    OBVIOUS
  <2>4. HeadersFirst(r)
    BY <1>1, <1>2, <2>2, <2>3, TailHeadersFirst DEF Laid
  <2>5. LoopsNested' /\ HeadersFirst(r)'
    BY <1>1, <1>13, <2>2, <2>4, SameNested
  <2>6. ASSUME status' = "order"
        PROVE  Saturated(order)' /\ TrueTurned(succ, order)' /\ (\A l \in Found(loops, root) : Settled(order, l))'
    <3>1. Fine(t)
      BY <1>6, <2>6 DEF Fine
    <3>2. StillToCome(s, rpo)
      BY <1>1, <1>2, <1>8, <2>2 DEF StillToCome, Laid, Progress
    <3>3. SettledAll(t)
      <4>1. CASE Placed(s, b)
        BY <1>5, <2>2, <4>1
      <4>2. CASE ~Placed(s, b) /\ IsLoopHeader(b)
        BY <1>2, <1>3, <1>5, <1>7, <1>9, <1>10, <1>11, <2>2, <3>1, <3>2, <4>2, HeaderNested
      <4>3. CASE ~Placed(s, b) /\ ~IsLoopHeader(b)
        BY <1>2, <1>3, <1>5, <1>7, <1>9, <1>10, <2>2, <3>1, <3>2, <4>3, SingleNested
      <4> QED
        BY <4>1, <4>2, <4>3
    <3>4. PICK g, o : g = t.succ /\ o = t.order
      OBVIOUS
    <3>5. Saturated(o) /\ TrueTurned(g, o) /\ \A l \in Found(loops, root) : Settled(o, l)
      BY <3>3, <3>4 DEF SettledAll
    <3>6. Saturated(o)' /\ TrueTurned(g, o)' /\ \A l \in Found(loops, root) : Settled(o, l)'
      BY <1>1, <1>13, <3>5, SameNested
    <3>7. Found(loops, root)' = Found(loops, root) /\ succ' = g /\ order' = o
      BY <1>1, <1>6, <3>4 DEF Found
    <3> QED
      BY <3>6, <3>7
  <2> QED
    BY <1>1, <2>3, <2>5, <2>6
<1>15. status' \in {"order", "misplaced", "nojump", "crash"}
  BY <1>6, <1>12
<1>16. LoopsKnown'
  <2>1. LoopsKnown
    BY <1>2 DEF NestedInv
  <2> QED
    BY <1>1, <1>13, <2>1, KnownLoops
<1> QED
  BY <1>1, <1>2, <1>14, <1>15, <1>16 DEF NestedInv

LEMMA FinishNested ==
  ASSUME LayoutInv, NestedInv, UNCHANGED <<vars, ends, rpo, order>>,
         status' = status \/ (status \in {"order", "done"} /\ status' \in {"done", "used"})
  PROVE  NestedInv'
<1>1. /\ succ' = succ /\ loops' = loops /\ loop' = loop /\ root' = root /\ pc' = pc
      /\ ends' = ends /\ rpo' = rpo /\ order' = order
  BY DEF vars
<1>2. CASE pc # "layout"
  <2>1. TreeInv'
    BY <1>2, StutterTree DEF NestedInv
  <2> QED
    BY <1>1, <1>2, <2>1 DEF NestedInv
<1>3. CASE pc = "layout"
  <2>1. LoopsReady /\ SameEdges(succ, succ')
    BY <1>1, <1>3 DEF LayoutInv, SameEdges
  <2>2. ASSUME Structured'
        PROVE  LoopsNested' /\ HeadersFirst(rpo)'
               /\ (status' \in {"order", "done", "used"} =>
                     Saturated(order)' /\ TrueTurned(succ, order)' /\ (\A l \in Found(loops, root) : Settled(order, l))')
    <3>1. Structured
      BY <2>1, <2>2, SameStructure DEF LoopsReady
    <3>2. PICK g, o, r : g = succ /\ o = order /\ r = rpo
      OBVIOUS
    <3>3. LoopsNested /\ HeadersFirst(r)
      BY <1>3, <3>1, <3>2 DEF NestedInv
    <3>4. LoopsNested' /\ HeadersFirst(r)'
      BY <1>1, <2>1, <3>3, SameNested
    <3>5. ASSUME status' \in {"order", "done", "used"}
          PROVE  Saturated(o)' /\ TrueTurned(g, o)' /\ \A l \in Found(loops, root) : Settled(o, l)'
      <4>1. Saturated(o) /\ TrueTurned(g, o) /\ \A l \in Found(loops, root) : Settled(o, l)
        BY <1>3, <3>1, <3>2, <3>5 DEF NestedInv
      <4> QED
        BY <1>1, <2>1, <4>1, SameNested
    <3>6. Found(loops, root)' = Found(loops, root) /\ succ' = g /\ order' = o /\ rpo' = r
      BY <1>1, <3>2 DEF Found
    <3> QED
      BY <3>4, <3>5, <3>6
  <2>3. LoopsKnown'
    BY <1>1, <1>3, <2>1, KnownLoops DEF NestedInv, LoopsReady
  <2> QED
    BY <1>1, <1>3, <2>2, <2>3 DEF NestedInv
<1> QED
  BY <1>2, <1>3

LEMMA InitNested == Init => NestedInv
BY DEF Init, NestedInv, TreeInv, TreeAt

LEMMA NestedStep == LayoutInv /\ NestedInv /\ [LinearNext]_allVars => NestedInv'
<1> SUFFICES ASSUME LayoutInv, NestedInv, [LinearNext]_allVars PROVE NestedInv'
  OBVIOUS
<1>1. CASE Analyse
  BY <1>1, AnalyseNested
<1>2. CASE Begin
  BY <1>2, BeginNested
<1>3. CASE Place
  BY <1>3, PlaceNested
<1>4. CASE SetLinearOrder
  BY <1>4, FinishNested DEF SetLinearOrder
<1>5. CASE UNCHANGED allVars
  BY <1>5, FinishNested DEF allVars, layout
<1> QED
  BY <1>1, <1>2, <1>3, <1>4, <1>5 DEF LinearNext, Stopped

\* Every step of the layout keeps what was placed settled.
THEOREM NestedInvariant == LinearSpec => []NestedInv
<1>1. LinearInit => NestedInv
  BY InitNested DEF LinearInit
<1> QED
  BY LayoutInvariant, NestedStep, <1>1, PTL DEF LinearSpec

\* The blocks between two places of the order are as many as the places.
LEMMA StretchCount ==
  ASSUME NEW q \in Seq(Block), IsInjective(q), NEW i \in DOMAIN q, NEW h \in 1 .. i
  PROVE  Cardinality({q[j] : j \in h .. i}) = i - h + 1
<1> DEFINE S == h .. i
           T == {q[j] : j \in S}
           f == [j \in S |-> q[j]]
<1>1. i \in Nat /\ h \in Nat /\ h <= i /\ \A j \in S : j \in DOMAIN q
  OBVIOUS
<1>2. IsFiniteSet(S) /\ Cardinality(S) = i - h + 1
  BY <1>1, FS_Interval
<1>3. f \in Bijection(S, T)
  <2>1. f \in [S -> T] /\ \A y \in T : \E j \in S : f[j] = y
    OBVIOUS
  <2>2. \A j, k \in S : f[j] = f[k] => j = k
    BY <1>1 DEF IsInjective
  <2> HIDE DEF S, T, f
  <2>3. f \in Injection(S, T)
    BY <2>1, <2>2 DEF Injection, IsInjective
  <2>4. f \in Surjection(S, T)
    BY <2>1 DEF Surjection
  <2> QED
    BY <2>3, <2>4 DEF Bijection
<1>4. Cardinality(T) = Cardinality(S)
  <2>1. ExistsBijection(S, T)
    BY <1>3 DEF ExistsBijection
  <2> HIDE DEF S, T
  <2> QED
    BY <1>2, <2>1, FS_Bijection
<1> QED
  BY <1>2, <1>4

\* In every structured graph the layout keeps loops together: the source of the
\* back edge comes last, and outermost and innermost loops have no gap.
THEOREM LoopsStayTogether == LinearSpec => []LoopsContiguous
<1>1. ASSUME LayoutInv, NestedInv, status = "done", Structured, NEW l \in Bodies
      PROVE  \E i \in DOMAIN order :
               /\ order[i] = loops[l].source
               /\ BodyOf(l) \cap {order[j] : j \in DOMAIN order \cap (i + 1 .. Len(order))} = {}
               /\ loops[l].outer = root \/ loops[l].inner = <<>> =>
                    /\ i >= Cardinality(BodyOf(l)) /\ order[i - Cardinality(BodyOf(l)) + 1] = loops[l].header
                    /\ BodyOf(l) = {order[j] : j \in i - Cardinality(BodyOf(l)) + 1 .. i}
  <2>1. pc = "layout"
    BY <1>1 DEF LayoutInv
  <2>2. LoopsReady /\ LoopsNested /\ l \in Found(loops, root) /\ Settled(order, l)
    <3>1. l \in Found(loops, root)
      BY DEF Bodies, Found
    <3> QED
      BY <1>1, <2>1, <3>1 DEF LayoutInv, NestedInv
  <2>3. PICK q \in Seq(Block) : q = order
    BY <1>1, <2>1 DEF LayoutInv, Laid
  <2>4. PICK B, s, c : B = BodyOf(l) /\ s = loops[l].source /\ c = loops[l].header
    OBVIOUS
  <2>5. IsInjective(q) /\ Range(q) = Reachable(succ)
    BY <1>1, <2>3, LayoutIsComplete DEF EveryBlockOnce
  <2>6. loop[s] = l /\ s \in Range(q)
    BY <2>2, <2>4, <2>5, NestedFacts
  <2>7. PICK i \in DOMAIN q : /\ q[i] = s /\ B \subseteq {q[j] : j \in 1 .. i}
                              /\ Compact(l) => \E h \in 1 .. i : q[h] = c /\ B = {q[j] : j \in h .. i}
    BY <2>2, <2>3, <2>4, <2>6 DEF Settled
  <2>8. DOMAIN q = 1 .. Len(q) /\ Len(q) \in Nat
    OBVIOUS
  <2>9. ASSUME NEW j \in DOMAIN q, j \in i + 1 .. Len(q), q[j] \in B PROVE FALSE
    <3>1. PICK k \in 1 .. i : q[k] = q[j]
      BY <2>7, <2>9
    <3>2. k \in DOMAIN q /\ k # j
      BY <2>8, <2>9
    <3> QED
      BY <2>5, <3>1, <3>2 DEF IsInjective
  <2>10. ASSUME Compact(l)
         PROVE  i >= Cardinality(B) /\ q[i - Cardinality(B) + 1] = c /\ B = {q[j] : j \in i - Cardinality(B) + 1 .. i}
    <3>1. PICK h \in 1 .. i : q[h] = c /\ B = {q[j] : j \in h .. i}
      BY <2>7, <2>10
    <3>2. Cardinality(B) = i - h + 1
      BY <2>5, <3>1, StretchCount
    <3>3. i - Cardinality(B) + 1 = h /\ i >= Cardinality(B)
      BY <2>8, <3>2
    <3> QED
      BY <3>1, <3>3
  <2>11. B \cap {q[j] : j \in DOMAIN q \cap (i + 1 .. Len(q))} = {}
    BY <2>9
  <2>12. /\ i \in DOMAIN order /\ order[i] = loops[l].source
         /\ BodyOf(l) \cap {order[j] : j \in DOMAIN order \cap (i + 1 .. Len(order))} = {}
    BY <2>3, <2>4, <2>7, <2>11
  <2>13. loops[l].outer = root \/ loops[l].inner = <<>> =>
           /\ i >= Cardinality(BodyOf(l)) /\ order[i - Cardinality(BodyOf(l)) + 1] = loops[l].header
           /\ BodyOf(l) = {order[j] : j \in i - Cardinality(BodyOf(l)) + 1 .. i}
    BY <2>3, <2>4, <2>10 DEF Compact
  <2> QED
    BY <2>12, <2>13
<1>2. LayoutInv /\ NestedInv => LoopsContiguous
  BY <1>1 DEF LoopsContiguous
<1> QED
  BY LayoutInvariant, NestedInvariant, <1>2, PTL

\* If the pass returns, false successors outside all loops follow their branches
\* in every graph, and in every structured one no block of a loop comes directly
\* after a branch whose true successor it is.
THEOREM BranchesAreTurned == LinearSpec => []BranchesFallThrough
<1>1. ASSUME NestedInv, LayoutInv, status = "done", Structured,
             NEW p \in Block, NEW b \in Block, Adjacent(p, b), Conditional(p), TrueSucc(succ, p) = b
      PROVE  loop[b] = Null
  <2>1. TrueTurned(succ, order)
    BY <1>1 DEF LayoutInv, NestedInv
  <2>2. NextTo(order, p, b)
    BY <1>1 DEF Adjacent, NextTo
  <2> QED
    BY <1>1, <2>1, <2>2 DEF TrueTurned
<1>2. NestedInv /\ LayoutInv /\ status = "done" =>
        \/ \A p, b \in Block : Adjacent(p, b) /\ Conditional(p) /\ TrueSucc(succ, p) = b => loop[b] = Null
        \/ ~Structured
  BY <1>1
<1>3. (status = "done" => \A p \in Reachable(succ) :
         Conditional(p) /\ loop[FalseSucc(succ, p)] = Null => Adjacent(p, FalseSucc(succ, p)))
      /\ NestedInv /\ LayoutInv => BranchesFallThrough
  BY <1>2 DEF BranchesFallThrough
<1> QED
  BY LayoutInvariant, NestedInvariant, FalseSuccessorsFollow, <1>3, PTL

-----------------------------------------------------------------------------
(***************************************************************************)
(* The liveness analysis scans a block backwards: what is live at its      *)
(* start, besides what enters it live, was defined by an instruction that  *)
(* the scan has not reached.                                               *)
(***************************************************************************)
LEMMA InstFacts ==
  ASSUME Defined
  PROVE  /\ \A b \in Block : Len(code[b]) \in Nat /\ DOMAIN code[b] = 1 .. Len(code[b])
         /\ \A b \in Block : \A i \in DOMAIN code[b] : <<b, i>> \in Insts
         /\ \A v \in Insts : v[1] \in Block /\ v[2] \in DOMAIN code[v[1]] /\ v = <<v[1], v[2]>>
         /\ \A v \in Insts : Inputs(v) \subseteq Insts
<1>1. code \in [Block -> Seq(Instruction)] /\ \A v \in Insts : \A w \in Inputs(v) : w \in Insts
  BY DEF Defined
<1>2. ASSUME NEW b \in Block PROVE code[b] \in Seq(Instruction)
  BY <1>1
<1>3. \A b \in Block : Len(code[b]) \in Nat /\ DOMAIN code[b] = 1 .. Len(code[b])
  BY <1>2
<1> QED
  BY <1>1, <1>3 DEF Insts

\* What can be reached from a successor enters the block before it live, unless
\* that block defines it.
LEMMA EntersEarlier ==
  ASSUME succ \in Cfgs, NEW b \in Block, NEW c \in SuccSet(succ, b), NEW v, c \in EntersLive(v), b # v[1]
  PROVE  b \in EntersLive(v)
<1>1. c \in Block /\ c # v[1] /\ ReachFrom(succ, Block \ {v[1]}, c) \cap (UsedIn(v) \cup PhiFrom(v)) # {}
  BY DEF EntersLive
<1>2. b \in ReachFrom(succ, Block \ {v[1]}, b)
  BY ReachSelf
<1>3. c \in ReachFrom(succ, Block \ {v[1]}, b)
  BY <1>1, <1>2, ReachStep
<1>4. ReachFrom(succ, Block \ {v[1]}, c) \subseteq ReachFrom(succ, Block \ {v[1]}, b)
  BY <1>3, ReachTrans
<1> QED
  BY <1>1, <1>4 DEF EntersLive

LEMMA UsedEnters ==
  ASSUME NEW b \in Block, NEW v, b \in UsedIn(v)
  PROVE  b \in EntersLive(v)
<1>1. b # v[1]
  BY DEF UsedIn
<1>2. b \in ReachFrom(succ, Block \ {v[1]}, b)
  BY ReachSelf
<1> QED
  BY <1>1, <1>2 DEF EntersLive

\* The live set at the end of a block.
LEMMA LiveAtEndFacts ==
  ASSUME Defined, succ \in Cfgs, liveIn \in [Block -> SUBSET Insts], LiveSetsSound, NEW b \in Block
  PROVE  LiveAtEnd(b) \subseteq Insts /\ \A v \in LiveAtEnd(b) : v[1] = b \/ b \in EntersLive(v)
<1>1. ASSUME NEW v \in LiveAtEnd(b) PROVE v \in Insts /\ (v[1] = b \/ b \in EntersLive(v))
  <2>1. PICK c \in SuccSet(succ, b) : v \in liveIn[c] \cup PhiInputs(b, c)
    BY DEF LiveAtEnd
  <2>2. c \in Block
    BY <2>1, SuccSeq
  <2>3. CASE v \in liveIn[c]
    <3>1. v \in Insts /\ c \in EntersLive(v)
      BY <2>2, <2>3 DEF LiveSetsSound
    <3> QED
      BY <2>1, <3>1, EntersEarlier
  <2>4. CASE v \in PhiInputs(b, c)
    <3>1. v[1] = b /\ \E i \in DOMAIN code[c] : v \in Inputs(<<c, i>>)
      BY <2>4 DEF PhiInputs, LeadingPhis
    <3> QED
      BY <2>2, <3>1, InstFacts
  <2> QED
    BY <2>1, <2>3, <2>4
<1> QED
  BY <1>1

\* What is live at the start of a block enters it live.
LEMMA LiveAtStartFacts ==
  ASSUME Defined, succ \in Cfgs, liveIn \in [Block -> SUBSET Insts], LiveSetsSound, NEW b \in Block
  PROVE  LiveAtStart(b) \subseteq Insts /\ \A v \in LiveAtStart(b) : b \in EntersLive(v)
<1> DEFINE f == [live \in SUBSET Insts |-> [v \in Insts |-> ScanLive(live, v)]]
<1>1. PICK n \in Nat : n = Len(code[b]) /\ DOMAIN code[b] = 1 .. n
  BY InstFacts
<1>2. PICK q : q = Backwards(b)
  OBVIOUS
<1>3. q \in Seq(Insts) /\ Len(q) = n /\ \A k \in 1 .. n : q[k] = <<b, (n - k) + 1>>
  <2>1. PICK p : p = [i \in 1 .. n |-> <<b, i>>]
    OBVIOUS
  <2>2. p \in Seq(Insts) /\ Len(p) = n
    BY <1>1, <2>1, InstFacts
  <2>3. q = Reverse(p)
    BY <1>1, <1>2, <2>1 DEF Backwards
  <2>4. q \in Seq(Insts) /\ Len(q) = n
    BY <2>2, <2>3, ReverseFacts
  <2>5. \A k \in 1 .. n : (n - k) + 1 \in 1 .. n /\ q[k] = p[(n - k) + 1]
    BY <2>2, <2>3 DEF Reverse
  <2> QED
    BY <2>1, <2>4, <2>5
<1>4. PICK start : start = LiveAtEnd(b)
  OBVIOUS
<1>5. start \in SUBSET Insts /\ \A v \in start : v[1] = b \/ b \in EntersLive(v)
  BY <1>4, LiveAtEndFacts
<1>6. ASSUME NEW live \in SUBSET Insts, NEW v \in Insts PROVE ScanLive(live, v) \in SUBSET Insts
  BY InstFacts DEF ScanLive, Removed
<1>7. Visitor(f, SUBSET Insts, Insts)
  BY <1>6 DEF Visitor
<1>8. LiveAtStart(b) = EachOf(f, q, start) \ ({b} \X LeadingPhis(b))
  BY <1>2, <1>4 DEF LiveAtStart
<1>9. \A live \in SUBSET Insts : \A v \in Insts : f[live][v] = ScanLive(live, v)
  OBVIOUS
<1> HIDE DEF f
<1>10. PICK w \in [0 .. n -> SUBSET Insts] :
            /\ w[0] = start /\ w[n] = EachOf(f, q, start)
            /\ \A k \in 1 .. n : w[k] = f[w[k - 1]][q[k]]
  <2>1. PICK S : S = SUBSET Insts
    OBVIOUS
  <2>2. Visitor(f, S, Insts) /\ q \in Seq(Insts) /\ start \in S
    BY <1>3, <1>5, <1>7, <2>1
  <2>3. \E w \in [0 .. Len(q) -> S] : /\ w[0] = start /\ w[Len(q)] = EachOf(f, q, start)
                                      /\ \A k \in 1 .. Len(q) : w[k] = f[w[k - 1]][q[k]]
    BY <2>2, EachOfFacts
  <2> QED
    BY <1>3, <2>1, <2>3
<1> DEFINE P == [k \in 0 .. n |-> {live \in SUBSET Insts : \A v \in live : b \in EntersLive(v) \/ (v[1] = b /\ v[2] <= n - k)}]
<1>11. w[0] \in P[0]
  <2>1. \A v \in start : v[1] = b => v[2] <= n - 0
    BY <1>1, <1>5, InstFacts
  <2> QED
    BY <1>5, <1>10, <2>1
<1>12. ASSUME NEW k \in 1 .. n, w[k - 1] \in P[k - 1] PROVE w[k] \in P[k]
  <2>1. k - 1 \in 0 .. n /\ k \in 0 .. n /\ (n - k) + 1 \in 1 .. n /\ n - (k - 1) = (n - k) + 1 /\ n - k \in Nat
    OBVIOUS
  <2>2. PICK j \in 1 .. n : j = (n - k) + 1 /\ j - 1 = n - k
    BY <2>1
  <2>3. PICK u \in Insts : u = <<b, j>>
    BY <1>1, InstFacts
  <2>4. w[k - 1] \in SUBSET Insts /\ \A v \in w[k - 1] : b \in EntersLive(v) \/ (v[1] = b /\ v[2] <= j)
    BY <1>12, <2>1, <2>2
  <2>5. w[k] = ScanLive(w[k - 1], u)
    <3>1. q[k] = u
      BY <1>3, <2>2, <2>3
    <3>2. w[k] = f[w[k - 1]][u]
      BY <1>10, <3>1
    <3> QED
      BY <1>9, <2>4, <3>2
  <2>6. w[k] \in SUBSET Insts
    BY <1>6, <2>4, <2>5
  <2>7. ASSUME NEW v \in w[k] PROVE b \in EntersLive(v) \/ (v[1] = b /\ v[2] <= n - k)
    <3>1. v \in Insts /\ v[2] \in Nat /\ v = <<v[1], v[2]>>
      <4>1. v \in Insts
        BY <2>6
      <4>2. v[1] \in Block /\ v[2] \in DOMAIN code[v[1]] /\ v = <<v[1], v[2]>>
        BY <4>1, InstFacts
      <4>3. DOMAIN code[v[1]] \subseteq Nat
        BY <4>2, InstFacts
      <4> QED
        BY <4>1, <4>2, <4>3
    <3>2. CASE v \in w[k - 1] /\ v # u
      <4>1. v[1] = b => v[2] # j
        BY <2>3, <3>1, <3>2
      <4> QED
        BY <2>2, <2>4, <3>1, <3>2, <4>1
    <3>3. CASE v \in Inputs(u) /\ Kind(u) # "phi"
      <4>1. CASE v[1] = b
        <5>1. v[2] < j
          BY <2>3, <3>3, <4>1 DEF Defined
        <5> QED
          BY <2>2, <3>1, <4>1, <5>1
      <4>2. CASE v[1] # b
        <5>1. code[b][j].kind # "phi" /\ v \in Inputs(<<b, j>>) /\ j \in DOMAIN code[b]
          BY <1>1, <2>3, <3>3 DEF Kind, Inst
        <5>2. b \in UsedIn(v)
          BY <4>2, <5>1 DEF UsedIn
        <5> QED
          BY <5>2, UsedEnters
      <4> QED
        BY <4>1, <4>2
    <3> QED
      BY <2>5, <3>2, <3>3 DEF ScanLive, Removed
  <2> QED
    BY <2>1, <2>6, <2>7
<1>13. w[n] \in P[n]
  <2> HIDE DEF P
  <2> QED
    BY <1>11, <1>12, LevelsKeep
<1>14. ASSUME NEW v \in w[n] PROVE b \in EntersLive(v)
  <2>1. w[n] \in SUBSET Insts /\ (b \in EntersLive(v) \/ (v[1] = b /\ v[2] <= n - n))
    BY <1>13
  <2>2. v[1] = b => v[2] \in 1 .. n
    BY <1>1, <2>1, InstFacts
  <2> QED
    BY <2>1, <2>2
<1> QED
  BY <1>8, <1>10, <1>14

-----------------------------------------------------------------------------
(***************************************************************************)
(* The inductive invariant of the liveness analysis.                       *)
(***************************************************************************)
Scanning == /\ status = "used"
            /\ left \in Seq(Block) /\ Range(left) \subseteq Range(order)
            /\ \A b \in Range(order) \ Range(left) : ~RunsOff(b)
            /\ stage = "crash" => \E b \in Range(order) : RunsOff(b)
            /\ stage = "done" => left = <<>>

ScanInv == /\ LayoutInv
           /\ Defined
           /\ stage \in {"order", "scan", "done", "crash"}
           /\ liveIn \in [Block -> SUBSET Insts]
           /\ stage = "order" => \A b \in Block : liveIn[b] = {}
           /\ stage # "order" => Scanning
           /\ LiveSetsSound

LEMMA InitScanInv == Init /\ LivenessInit /\ Defined => ScanInv
<1> SUFFICES ASSUME Init, LivenessInit, Defined PROVE ScanInv
  OBVIOUS
<1>1. LayoutInv
  BY InitLayoutInv DEF LinearInit, LivenessInit
<1>2. stage = "order" /\ liveIn = [b \in Block |-> {}]
  BY DEF LivenessInit
<1> QED
  BY <1>1, <1>2 DEF ScanInv, LiveSetsSound

\* What does not change with the graph and the code.
LEMMA SameCode ==
  ASSUME code' = code
  PROVE  /\ Insts' = Insts /\ (Defined => Defined') /\ \A b : RunsOff(b)' = RunsOff(b)
         /\ succ' = succ => \A v : EntersLive(v)' = EntersLive(v)
<1>1. Insts' = Insts /\ \A b : RunsOff(b)' = RunsOff(b)
  BY DEF Insts, RunsOff
<1>2. Defined => Defined'
  BY <1>1 DEF Defined, Inputs, Inst, Kind
<1>3. ASSUME succ' = succ, NEW v PROVE EntersLive(v)' = EntersLive(v)
  <2>1. UsedIn(v)' = UsedIn(v)
    BY DEF UsedIn, Inputs, Inst
  <2>2. PhiFrom(v)' = PhiFrom(v)
    BY <1>3 DEF PhiFrom, LeadingPhis, Inst
  <2> QED
    BY <1>3, <2>1, <2>2 DEF EntersLive
<1> QED
  BY <1>1, <1>2, <1>3

LEMMA FrontFacts ==
  ASSUME NEW q \in Seq(Block), q # <<>>
  PROVE  /\ Front(q) \in Seq(Block) /\ Last(q) \in Range(q) /\ Range(Front(q)) \subseteq Range(q)
         /\ Range(q) \subseteq Range(Front(q)) \cup {Last(q)}
<1>1. PICK n \in Nat : n = Len(q) - 1 /\ Len(q) = n + 1 /\ DOMAIN q = 1 .. n + 1
  <2>1. Len(q) \in Nat /\ Len(q) # 0
    BY EmptySeq
  <2> QED
    BY <2>1
<1>2. PICK r : r = Front(q)
  OBVIOUS
<1>3. r \in Seq(Block) /\ DOMAIN r = 1 .. n /\ \A i \in 1 .. n : r[i] = q[i] /\ i \in 1 .. n + 1
  <2>1. r = SubSeq(q, 1, n)
    BY <1>1, <1>2 DEF Front
  <2> QED
    BY <1>1, <2>1, SubSeqProperties
<1>4. Last(q) = q[n + 1] /\ n + 1 \in 1 .. n + 1
  BY <1>1 DEF Last
<1>5. Range(r) \subseteq Range(q) /\ Last(q) \in Range(q)
  BY <1>1, <1>3, <1>4 DEF Range
<1>6. ASSUME NEW y \in Range(q) PROVE y \in Range(r) \cup {Last(q)}
  <2>1. PICK i \in 1 .. n + 1 : q[i] = y
    BY <1>1 DEF Range
  <2>2. i \in 1 .. n \/ i = n + 1
    BY <2>1
  <2> QED
    BY <1>3, <1>4, <2>1, <2>2 DEF Range
<1> QED
  BY <1>2, <1>3, <1>5, <1>6

\* The layout has come to its end when the analysis uses it.
LEMMA UsedFacts ==
  ASSUME LayoutInv, status \in {"done", "used"}
  PROVE  /\ succ \in Cfgs /\ order \in Seq(Block) /\ Range(order) = Reachable(succ) /\ Range(order) \subseteq Block
<1>1. LoopsReady /\ Laid /\ Progress
  BY DEF LayoutInv
<1>2. Range(rpo) = {}
  BY <1>1 DEF Progress, Range
<1> QED
  BY <1>1, <1>2, ReachableFacts DEF Progress, Laid, LoopsReady

LEMMA OrderScanInv == ScanInv /\ Order => ScanInv'
<1> SUFFICES ASSUME ScanInv, Order PROVE ScanInv'
  OBVIOUS
<1>1. LinearNext /\ status # "used" /\ code' = code /\ left' = left /\ liveIn' = liveIn /\ stage' = stage
  BY DEF Order, analysis
<1>2. LayoutInv'
  BY <1>1, LinearStep DEF ScanInv
<1>3. stage = "order" /\ \A b \in Block : liveIn[b] = {}
  BY <1>1 DEF ScanInv, Scanning
<1>4. Insts' = Insts /\ Defined'
  BY <1>1, SameCode DEF ScanInv
<1>5. LiveSetsSound'
  BY <1>1, <1>3 DEF LiveSetsSound
<1> QED
  BY <1>1, <1>2, <1>3, <1>4, <1>5 DEF ScanInv

LEMMA InitLivenessScanInv == ScanInv /\ InitLiveness => ScanInv'
<1> SUFFICES ASSUME ScanInv, InitLiveness PROVE ScanInv'
  OBVIOUS
<1>1. stage = "order" /\ status = "done" /\ left' = order /\ stage' = "scan" /\ status' = "used"
      /\ UNCHANGED <<vars, ends, inverted, rpo, order>> /\ code' = code /\ liveIn' = liveIn /\ order' = order
  BY DEF InitLiveness
<1>2. LayoutInv'
  BY <1>1, FinishLayoutInv DEF ScanInv
<1>3. order \in Seq(Block)
  BY <1>1, UsedFacts DEF ScanInv
<1>4. Insts' = Insts /\ Defined'
  BY <1>1, SameCode DEF ScanInv
<1>5. Scanning'
  BY <1>1, <1>3 DEF Scanning
<1>6. LiveSetsSound'
  BY <1>1 DEF LiveSetsSound, ScanInv
<1> QED
  BY <1>1, <1>2, <1>4, <1>5, <1>6 DEF ScanInv

LEMMA ScanBlockScanInv == ScanInv /\ ScanBlock => ScanInv'
<1> SUFFICES ASSUME ScanInv, ScanBlock PROVE ScanInv'
  OBVIOUS
<1>1. PICK b : b = Current
  OBVIOUS
<1>2. /\ stage = "scan" /\ left # <<>> /\ ~RunsOff(b)
      /\ liveIn' = [liveIn EXCEPT ![b] = LiveAtStart(b)] /\ left' = Front(left)
      /\ UNCHANGED allVars /\ code' = code /\ stage' = stage
  BY <1>1 DEF ScanBlock
<1>3. Scanning /\ LayoutInv /\ Defined
  BY <1>2 DEF ScanInv
<1>4. UNCHANGED <<vars, ends, inverted, rpo, order, status>> /\ succ' = succ /\ order' = order /\ status' = status
  BY <1>2 DEF allVars, layout, vars
<1>5. LayoutInv'
  BY <1>3, <1>4, FinishLayoutInv
<1>6. succ \in Cfgs /\ Range(order) \subseteq Block
  BY <1>3, UsedFacts DEF Scanning
<1>7. /\ Front(left) \in Seq(Block) /\ b \in Range(left) /\ Range(Front(left)) \subseteq Range(left)
      /\ Range(left) \subseteq Range(Front(left)) \cup {b}
  BY <1>1, <1>2, <1>3, FrontFacts DEF Scanning, Current
<1>8. b \in Block
  BY <1>3, <1>6, <1>7 DEF Scanning
<1>9. LiveAtStart(b) \subseteq Insts /\ \A v \in LiveAtStart(b) : b \in EntersLive(v)
  BY <1>6, <1>8, LiveAtStartFacts DEF ScanInv
<1>10. Insts' = Insts /\ Defined' /\ (\A c : RunsOff(c)' = RunsOff(c)) /\ \A v : EntersLive(v)' = EntersLive(v)
  BY <1>2, <1>3, <1>4, SameCode
<1>11. liveIn' \in [Block -> SUBSET Insts]
  BY <1>2, <1>9 DEF ScanInv
<1>12. LiveSetsSound'
  <2>1. ASSUME NEW c \in Block, NEW v \in liveIn'[c] PROVE c \in EntersLive(v)
    <3>1. CASE c = b
      BY <1>2, <1>8, <1>9, <2>1, <3>1 DEF ScanInv
    <3>2. CASE c # b
      BY <1>2, <2>1, <3>2 DEF ScanInv, LiveSetsSound
    <3> QED
      BY <3>1, <3>2
  <2> QED
    BY <1>10, <2>1 DEF LiveSetsSound
<1>13. Scanning'
  BY <1>2, <1>3, <1>4, <1>7, <1>10 DEF Scanning
<1> QED
  BY <1>2, <1>5, <1>10, <1>11, <1>12, <1>13 DEF ScanInv

\* The end of the scan, a crash, and steps that change nothing.
LEMMA FinishScanInv ==
  ASSUME ScanInv, UNCHANGED <<allVars, code, left, liveIn>>,
         \/ stage' = stage
         \/ stage = "scan" /\ stage' = "done" /\ left = <<>>
         \/ stage = "scan" /\ stage' = "crash" /\ \E b \in Range(order) : RunsOff(b)
  PROVE  ScanInv'
<1>1. /\ UNCHANGED <<vars, ends, inverted, rpo, order, status>> /\ succ' = succ /\ order' = order /\ status' = status
      /\ code' = code /\ left' = left /\ liveIn' = liveIn
  BY DEF allVars, layout, vars
<1>2. LayoutInv'
  BY <1>1, FinishLayoutInv DEF ScanInv
<1>3. Insts' = Insts /\ Defined' /\ (\A c : RunsOff(c)' = RunsOff(c)) /\ \A v : EntersLive(v)' = EntersLive(v)
  BY <1>1, SameCode DEF ScanInv
<1>4. stage' # "order" => Scanning'
  BY <1>1, <1>3 DEF ScanInv, Scanning
<1>5. LiveSetsSound'
  BY <1>1, <1>3 DEF ScanInv, LiveSetsSound
<1> QED
  BY <1>1, <1>2, <1>3, <1>4, <1>5 DEF ScanInv

LEMMA ScanCrashScanInv == ScanInv /\ ScanCrash => ScanInv'
<1> SUFFICES ASSUME ScanInv, ScanCrash PROVE ScanInv'
  OBVIOUS
<1>1. PICK b : b = Current
  OBVIOUS
<1>2. /\ stage = "scan" /\ left # <<>> /\ stage' = "crash" /\ UNCHANGED <<allVars, code, left, liveIn>>
      /\ (RunsOff(b) \/ \E c \in SuccSet(succ, b) : RunsOff(c))
  BY <1>1 DEF ScanCrash, analysis
<1>3. Scanning /\ LayoutInv
  BY <1>2 DEF ScanInv
<1>4. succ \in Cfgs /\ Range(order) = Reachable(succ)
  BY <1>3, UsedFacts DEF Scanning
<1>5. b \in Range(order)
  BY <1>1, <1>2, <1>3, FrontFacts DEF Scanning, Current
<1>6. SuccSet(succ, b) \subseteq Range(order)
  BY <1>4, <1>5, ReachableStep
<1>7. \E c \in Range(order) : RunsOff(c)
  BY <1>2, <1>5, <1>6
<1> QED
  BY <1>2, <1>7, FinishScanInv

\* Every step of the analysis keeps the invariant.
THEOREM ScanInvariant == LivenessSpec => []ScanInv
<1>1. ScanInv /\ [LivenessNext]_liveVars => ScanInv'
  <2> SUFFICES ASSUME ScanInv, [LivenessNext]_liveVars PROVE ScanInv'
    OBVIOUS
  <2>1. CASE SetLiveIntervals
    BY <2>1, FinishScanInv DEF SetLiveIntervals
  <2>2. CASE UNCHANGED liveVars
    BY <2>2, FinishScanInv DEF liveVars, analysis
  <2> QED
    BY <2>1, <2>2, OrderScanInv, InitLivenessScanInv, ScanBlockScanInv, ScanCrashScanInv DEF LivenessNext, Returned
<1> QED
  BY InitScanInv, <1>1, PTL DEF LivenessSpec

\* No value is taken to be live into a block from which none of its uses is
\* reached before its definition, in every graph and for every program: the
\* live sets never hold too much, though each is computed only once.
THEOREM LiveSetsAreSound == LivenessSpec => []LiveSetsSound
<1>1. ScanInv => LiveSetsSound
  BY DEF ScanInv
<1> QED
  BY <1>1, ScanInvariant, PTL

\* The analysis runs off the end of a block only if some block that is reached
\* has nothing but phis, and if there is one it does not return.
THEOREM BareBlocksAreFatal == LivenessSpec => []NeedsAnInstruction
<1>1. ScanInv => NeedsAnInstruction
  <2> SUFFICES ASSUME ScanInv PROVE NeedsAnInstruction
    OBVIOUS
  <2>1. stage = "crash" => \E b \in Range(order) : RunsOff(b)
    BY DEF ScanInv, Scanning
  <2>2. stage = "done" => \A b \in Range(order) : ~RunsOff(b)
    BY DEF ScanInv, Scanning, Range
  <2> QED
    BY <2>1, <2>2 DEF NeedsAnInstruction, RunsOff
<1> QED
  BY <1>1, ScanInvariant, PTL

-----------------------------------------------------------------------------
(***************************************************************************)
(* A layout in which only back edges lead backwards: dominators come       *)
(* before what they dominate.                                              *)
(***************************************************************************)
\* a comes before b in the list q.
Before(q, a, b) == \E i, j \in DOMAIN q : i < j /\ q[i] = a /\ q[j] = b

\* The list holds every block that can be reached, once.
Lists(q) == q \in Seq(Block) /\ IsInjective(q) /\ Range(q) = Reachable(succ)

LEMMA BeforeFacts ==
  ASSUME NEW q, Lists(q), NEW a, NEW b, NEW c
  PROVE  /\ Before(q, a, b) => ~Before(q, b, a) /\ a # b
         /\ Before(q, a, b) /\ Before(q, b, c) => Before(q, a, c)
         /\ a \in Reachable(succ) /\ b \in Reachable(succ) => a = b \/ Before(q, a, b) \/ Before(q, b, a)
<1>1. DOMAIN q \subseteq Nat /\ \A i, j \in DOMAIN q : q[i] = q[j] => i = j
  BY DEF Lists, IsInjective
<1>2. Before(q, a, b) => ~Before(q, b, a) /\ a # b
  BY <1>1 DEF Before
<1>3. ASSUME Before(q, a, b), Before(q, b, c) PROVE Before(q, a, c)
  <2>1. PICK i, j \in DOMAIN q : i < j /\ q[i] = a /\ q[j] = b
    BY <1>3 DEF Before
  <2>2. PICK k, l \in DOMAIN q : k < l /\ q[k] = b /\ q[l] = c
    BY <1>3 DEF Before
  <2>3. j = k /\ i \in Nat /\ j \in Nat /\ l \in Nat
    BY <1>1, <2>1, <2>2
  <2>4. i < l
    BY <2>1, <2>2, <2>3
  <2> QED
    BY <2>1, <2>2, <2>4 DEF Before
<1>4. ASSUME a \in Reachable(succ), b \in Reachable(succ) PROVE a = b \/ Before(q, a, b) \/ Before(q, b, a)
  <2>1. PICK i, j \in DOMAIN q : q[i] = a /\ q[j] = b
    BY <1>4 DEF Lists, Range
  <2>2. i = j \/ i < j \/ j < i
    BY <1>1, <2>1
  <2> QED
    BY <2>1, <2>2 DEF Before
<1> QED
  BY <1>2, <1>3, <1>4

\* A block comes after one of its predecessors.
LEMMA PredBefore ==
  ASSUME succ \in Cfgs, NEW q, Lists(q), Forward(q), NEW b \in Reachable(succ), b # Root
  PROVE  \E p \in Reachable(succ) : b \in SuccSet(succ, p) /\ Before(q, p, b)
<1>1. SUFFICES ASSUME \A p \in Reachable(succ) : b \in SuccSet(succ, p) => ~Before(q, p, b) PROVE FALSE
  OBVIOUS
<1>2. b \in Block /\ Reachable(succ) \subseteq Block /\ Root \in Block
  BY ReachableFacts
<1> DEFINE Y == {y \in Block : ~Dominates(succ, b, y)}
<1>3. Root \in Y
  BY <1>2, DominatesRoot
<1>4. ASSUME NEW x \in Reachable(succ) \cap Y, NEW y \in SuccSet(succ, x) PROVE y \in Y
  <2>1. y \in Block /\ ~Dominates(succ, b, x)
    BY <1>4, ReachableStep
  <2>2. CASE y # b
    <3> SUFFICES ASSUME Dominates(succ, b, y) PROVE FALSE
      BY <2>1
    <3> QED
      BY <1>2, <2>1, <2>2, DominatesSource
  <2>3. CASE y = b
    <3>1. x # b
      BY <2>1 DEF Dominates
    <3>2. Before(q, b, x)
      BY <1>1, <2>3, <3>1, BeforeFacts
    <3>3. Dominates(succ, b, x)
      BY <2>3, <3>2 DEF Before, Forward
    <3> QED
      BY <2>1, <3>3
  <2> QED
    BY <2>2, <2>3
<1>5. Reachable(succ) \subseteq Y
  <2> HIDE DEF Y
  <2> QED
    BY <1>3, <1>4, ReachableBy
<1> QED
  BY <1>5 DEF Dominates

\* A block comes after those that dominate it.
LEMMA DominatorBefore ==
  ASSUME succ \in Cfgs, NEW q, Lists(q), Forward(q), NEW d \in Block, NEW b \in Reachable(succ),
         Dominates(succ, d, b), d # b
  PROVE  Before(q, d, b)
<1> DEFINE Bad == {j \in DOMAIN q : Dominates(succ, d, q[j]) /\ q[j] # d /\ ~Before(q, d, q[j])}
<1>1. DOMAIN q \subseteq Nat /\ Reachable(succ) = {q[j] : j \in DOMAIN q} /\ Reachable(succ) \subseteq Block
  BY ReachableFacts DEF Lists, Range
<1>2. SUFFICES ASSUME Bad # {} PROVE FALSE
  BY <1>1
<1>3. PICK j \in Bad : \A k \in Bad : j <= k
  <2>1. Bad \in SUBSET Nat
    BY <1>1
  <2> HIDE DEF Bad
  <2> QED
    BY <1>2, <2>1, LeastNumber
<1>4. PICK x \in Reachable(succ) : x = q[j]
  BY <1>1
<1>5. Dominates(succ, d, x) /\ x # d /\ ~Before(q, d, x) /\ x # Root
  BY <1>3, <1>4, DominatesRoot
<1>6. PICK p \in Reachable(succ) : x \in SuccSet(succ, p) /\ Before(q, p, x)
  BY <1>5, PredBefore
<1>7. Dominates(succ, d, p)
  BY <1>5, <1>6, DominatesSource
<1>8. p # d
  BY <1>5, <1>6
<1>9. ~Before(q, d, p)
  BY <1>5, <1>6, BeforeFacts
<1>10. PICK i, k \in DOMAIN q : i < k /\ q[i] = p /\ q[k] = x
  BY <1>6 DEF Before
<1>11. k = j
  BY <1>3, <1>4, <1>10 DEF Lists, IsInjective
<1>12. i \in Bad
  BY <1>7, <1>8, <1>9, <1>10
<1>13. j <= i /\ i < j /\ i \in Nat /\ j \in Nat
  BY <1>1, <1>3, <1>10, <1>11, <1>12
<1> QED
  BY <1>13

-----------------------------------------------------------------------------
(***************************************************************************)
(* Where a value is live.                                                  *)
(***************************************************************************)
\* A set that holds the blocks that use v, and with a block its predecessors,
\* holds all that v enters live.
LEMMA EntersWithin ==
  ASSUME NEW v, NEW G, (UsedIn(v) \cup PhiFrom(v)) \ {v[1]} \subseteq G,
         \A b, c \in Block \ {v[1]} : c \in SuccSet(succ, b) /\ c \in G => b \in G
  PROVE  EntersLive(v) \subseteq G
<1> SUFFICES ASSUME NEW b \in EntersLive(v), b \notin G PROVE FALSE
  OBVIOUS
<1> DEFINE S == Block \ (G \cup {v[1]})
<1>1. b \in S /\ ReachFrom(succ, Block \ {v[1]}, b) \cap (UsedIn(v) \cup PhiFrom(v)) # {}
  BY DEF EntersLive
<1>2. Closed(succ, Block \ {v[1]}, b, S)
  BY <1>1 DEF Closed
<1>3. ReachFrom(succ, Block \ {v[1]}, b) \subseteq S
  <2> S \in SUBSET Block
    OBVIOUS
  <2> HIDE DEF S
  <2> QED
    BY <1>2, ReachOn
<1> QED
  BY <1>1, <1>3

\* Definitions dominate their uses, and phis take what the predecessor defines.
Proper == UsesDominated /\ PhiInputsLocal

\* What a phi takes comes from the block that defines it.
LEMMA PhiFromOwn ==
  ASSUME succ \in Cfgs, Defined, PhiInputsLocal, NEW v
  PROVE  PhiFrom(v) \subseteq {v[1]}
<1> SUFFICES ASSUME NEW b \in PhiFrom(v) PROVE b = v[1]
  OBVIOUS
<1>1. PICK c \in SuccSet(succ, b) : \E i \in LeadingPhis(c) : <<v, b>> \in Inst(<<c, i>>).ins
  BY DEF PhiFrom
<1>2. PICK i \in LeadingPhis(c) : <<v, b>> \in Inst(<<c, i>>).ins
  BY <1>1
<1>3. b \in Block /\ c \in Block
  BY <1>1, SuccSeq DEF PhiFrom
<1>4. i \in DOMAIN code[c] /\ i \in 1 .. i
  BY <1>2, <1>3, InstFacts DEF LeadingPhis
<1>5. PICK w : w = <<c, i>>
  OBVIOUS
<1>6. w \in Insts /\ Kind(w) = "phi" /\ <<v, b>> \in Inst(w).ins
  BY <1>2, <1>3, <1>4, <1>5, InstFacts DEF LeadingPhis, Kind, Inst
<1>7. <<v, b>>[1][1] = <<v, b>>[2]
  BY <1>6 DEF PhiInputsLocal
<1> QED
  BY <1>7

\* A value is live only in blocks that its own block dominates.
LEMMA EntersDominated ==
  ASSUME succ \in Cfgs, Defined, Proper, NEW v, v[1] \in Block, NEW b \in EntersLive(v), b \in Reachable(succ)
  PROVE  Dominates(succ, v[1], b) /\ v[1] # b
<1> DEFINE G == {x \in Block : x \in Reachable(succ) => Dominates(succ, v[1], x)}
<1>1. ASSUME NEW x \in UsedIn(v) PROVE x \in G
  <2>1. x \in Block
    BY DEF UsedIn
  <2> SUFFICES ASSUME x \in Reachable(succ) PROVE Dominates(succ, v[1], x)
    BY <2>1
  <2>2. PICK i \in DOMAIN code[x] : code[x][i].kind # "phi" /\ v \in Inputs(<<x, i>>)
    BY DEF UsedIn
  <2> QED
    BY <2>2 DEF Proper, UsesDominated
<1>2. PhiFrom(v) \subseteq {v[1]}
  BY PhiFromOwn DEF Proper
<1>3. ASSUME NEW x \in Block \ {v[1]}, NEW y \in Block \ {v[1]}, y \in SuccSet(succ, x), y \in G PROVE x \in G
  <2> SUFFICES ASSUME x \in Reachable(succ) PROVE Dominates(succ, v[1], x)
    OBVIOUS
  <2>1. y \in Reachable(succ)
    BY <1>3, ReachableStep
  <2> QED
    BY <1>3, <2>1, DominatesSource
<1>4. EntersLive(v) \subseteq G
  <2> HIDE DEF G
  <2> QED
    BY <1>1, <1>2, <1>3, EntersWithin
<1> QED
  BY <1>4 DEF EntersLive

\* Where a value enters live it is used, or enters a successor live.
LEMMA EntersOn ==
  ASSUME succ \in Cfgs, NEW v, NEW b \in EntersLive(v)
  PROVE  b \in UsedIn(v) \cup PhiFrom(v) \/ \E c \in SuccSet(succ, b) : c \in EntersLive(v)
<1> DEFINE G == {x \in Block \ {v[1]} : \/ x \in UsedIn(v) \cup PhiFrom(v)
                                        \/ \E c \in SuccSet(succ, x) : c \in EntersLive(v)}
<1>1. (UsedIn(v) \cup PhiFrom(v)) \ {v[1]} \subseteq G
  BY DEF UsedIn, PhiFrom
<1>2. ASSUME NEW x \in Block \ {v[1]}, NEW y \in Block \ {v[1]}, y \in SuccSet(succ, x), y \in G PROVE x \in G
  <2>1. y \in EntersLive(v)
    <3>1. CASE y \in UsedIn(v) \cup PhiFrom(v)
      <4>1. y \in ReachFrom(succ, Block \ {v[1]}, y)
        BY ReachSelf
      <4> QED
        BY <3>1, <4>1 DEF EntersLive
    <3>2. CASE \E c \in SuccSet(succ, y) : c \in EntersLive(v)
      <4>1. PICK c \in SuccSet(succ, y) : c \in EntersLive(v)
        BY <3>2
      <4> QED
        BY <4>1, EntersEarlier
    <3> QED
      BY <1>2, <3>1, <3>2
  <2> QED
    BY <1>2, <2>1
<1>3. EntersLive(v) \subseteq G
  <2> HIDE DEF G
  <2> QED
    BY <1>1, <1>2, EntersWithin
<1> QED
  BY <1>3

-----------------------------------------------------------------------------
(***************************************************************************)
(* The numbers of the instructions and the ranges of the blocks.           *)
(***************************************************************************)
\* The numbers nb of the instructions of b ascend inside the range of b in rg.
BlockNumbered(nb, rg, b) ==
  /\ rg[b] \in Life /\ rg[b].start <= rg[b].end
  /\ DOMAIN nb[b] = DOMAIN code[b]
  /\ \A i \in DOMAIN code[b] : nb[b][i] \in Nat /\ rg[b].start <= nb[b][i] /\ nb[b][i] <= rg[b].end
  /\ \A i, j \in DOMAIN code[b] : i <= j => nb[b][i] <= nb[b][j]

\* The ranges of the first k blocks of q follow one another.
RangesFollow(q, rg, k) == \A i, j \in 1 .. k : i < j => rg[q[i]].end <= rg[q[j]].start

NumberedUpTo(q, s, k) ==
  /\ \A i \in 1 .. k : BlockNumbered(s.number, s.range, q[i]) /\ s.range[q[i]].end <= s.cur
  /\ RangesFollow(q, s.range, k)

\* How many instructions up to place i are no phis.
StepsTo(b, i) == Cardinality({k \in 1 .. i : code[b][k].kind # "phi"})

LEMMA StepsFacts ==
  ASSUME NEW b, NEW i \in Nat, NEW j \in Nat, i <= j
  PROVE  StepsTo(b, i) \in Nat /\ StepsTo(b, j) \in Nat /\ StepsTo(b, i) <= StepsTo(b, j)
<1> DEFINE S == {k \in 1 .. i : code[b][k].kind # "phi"}
           T == {k \in 1 .. j : code[b][k].kind # "phi"}
<1>1. IsFiniteSet(1 .. j)
  BY FS_Interval
<1>2. T \subseteq 1 .. j /\ S \subseteq T
  OBVIOUS
<1>3. StepsTo(b, i) = Cardinality(S) /\ StepsTo(b, j) = Cardinality(T)
  BY DEF StepsTo
<1> HIDE DEF S, T
<1>4. IsFiniteSet(T)
  BY <1>1, <1>2, FS_Subset
<1>5. IsFiniteSet(S) /\ Cardinality(S) <= Cardinality(T)
  BY <1>2, <1>4, FS_Subset
<1> QED
  BY <1>3, <1>4, <1>5, FS_CardinalityType

LEMMA InitBlockFacts ==
  ASSUME Defined, NEW s \in Numbering, NEW b \in Block
  PROVE  LET t == InitBlock(s, b)
         IN  /\ t \in Numbering /\ BlockNumbered(t.number, t.range, b)
             /\ t.range[b].start = s.cur /\ t.range[b].end = t.cur /\ s.cur <= t.cur
             /\ \A c \in Block \ {b} : t.number[c] = s.number[c] /\ t.range[c] = s.range[c]
<1>1. PICK n \in Nat : n = Len(code[b]) /\ DOMAIN code[b] = 1 .. n
  BY InstFacts
<1>2. PICK cur \in Nat : cur = s.cur
  BY DEF Numbering
<1>3. PICK next \in Nat : next = cur + 2 * StepsTo(b, n) + 2
  <2>1. StepsTo(b, n) \in Nat
    BY StepsFacts
  <2> QED
    BY <2>1
<1>4. PICK row : row = [i \in 1 .. n |-> cur + 2 * StepsTo(b, i)]
  OBVIOUS
<1>5. PICK t : t = [cur |-> next, number |-> [s.number EXCEPT ![b] = row],
                    range |-> [s.range EXCEPT ![b] = [start |-> cur, end |-> next]]]
  OBVIOUS
<1>6. t = InitBlock(s, b)
  BY <1>1, <1>2, <1>3, <1>4, <1>5 DEF InitBlock, StepsTo
<1>7. ASSUME NEW i \in 1 .. n, NEW j \in 1 .. n, i <= j
      PROVE  row[i] \in Nat /\ cur <= row[i] /\ row[i] <= row[j] /\ row[j] <= next
  <2>1. /\ StepsTo(b, i) \in Nat /\ StepsTo(b, j) \in Nat /\ StepsTo(b, n) \in Nat
        /\ StepsTo(b, i) <= StepsTo(b, j) /\ StepsTo(b, j) <= StepsTo(b, n)
    BY <1>7, StepsFacts
  <2>2. PICK x \in Nat, y \in Nat, z \in Nat : x = StepsTo(b, i) /\ y = StepsTo(b, j) /\ z = StepsTo(b, n) /\ x <= y /\ y <= z
    BY <2>1
  <2>3. row[i] = cur + 2 * x /\ row[j] = cur + 2 * y /\ next = cur + 2 * z + 2
    BY <1>3, <1>4, <2>2
  <2> QED
    BY <2>2, <2>3
<1>8. row \in Seq(Nat) /\ DOMAIN row = 1 .. n
  <2>1. \A i \in 1 .. n : row[i] \in Nat
    BY <1>7
  <2> QED
    BY <1>4, <2>1
<1>9. cur <= next
  <2>1. StepsTo(b, n) \in Nat
    BY StepsFacts
  <2> QED
    BY <1>3, <2>1
<1>10. s.number \in [Block -> Seq(Nat)] /\ s.range \in [Block -> Life]
  BY DEF Numbering
<1>11. t.number[b] = row /\ t.range[b] = [start |-> cur, end |-> next] /\ t.cur = next
       /\ \A c \in Block \ {b} : t.number[c] = s.number[c] /\ t.range[c] = s.range[c]
  BY <1>5, <1>10
<1>12. t \in Numbering
  BY <1>5, <1>8, <1>10 DEF Numbering, Life
<1>13. BlockNumbered(t.number, t.range, b)
  <2>1. t.range[b] \in Life /\ t.range[b].start = cur /\ t.range[b].end = next
    BY <1>11 DEF Life
  <2>2. \A i \in 1 .. n : row[i] \in Nat /\ cur <= row[i] /\ row[i] <= next
    BY <1>7
  <2> QED
    BY <1>1, <1>7, <1>8, <1>9, <1>11, <2>1, <2>2 DEF BlockNumbered
<1> QED
  BY <1>2, <1>6, <1>9, <1>11, <1>12, <1>13

\* InitLiveness numbers all blocks of a list.
LEMMA NumberedFacts ==
  ASSUME Defined, NEW q \in Seq(Block), IsInjective(q), NEW s \in Numbering
  PROVE  LET t == EachOf([u \in Numbering |-> [b \in Block |-> InitBlock(u, b)]], q, s)
         IN  t \in Numbering /\ NumberedUpTo(q, t, Len(q))
<1> DEFINE f == [u \in Numbering |-> [b \in Block |-> InitBlock(u, b)]]
<1>1. Visitor(f, Numbering, Block)
  <2>1. \A u \in Numbering : \A b \in Block : InitBlock(u, b) \in Numbering
    BY InitBlockFacts
  <2> QED
    BY <2>1 DEF Visitor
<1>2. \A u \in Numbering : \A b \in Block : f[u][b] = InitBlock(u, b)
  OBVIOUS
<1> HIDE DEF f
<1>3. PICK n \in Nat : n = Len(q) /\ DOMAIN q = 1 .. n
  OBVIOUS
<1>4. PICK w \in [0 .. n -> Numbering] :
        /\ w[0] = s /\ w[n] = EachOf(f, q, s)
        /\ \A k \in 1 .. n : w[k] = f[w[k - 1]][q[k]]
  <2>1. PICK S : S = Numbering
    OBVIOUS
  <2>2. Visitor(f, S, Block) /\ s \in S
    BY <1>1, <2>1
  <2>3. \E w \in [0 .. Len(q) -> S] : /\ w[0] = s /\ w[Len(q)] = EachOf(f, q, s)
                                      /\ \A k \in 1 .. Len(q) : w[k] = f[w[k - 1]][q[k]]
    BY <2>2, EachOfFacts
  <2> QED
    BY <1>3, <2>1, <2>3
<1> DEFINE P == [k \in 0 .. n |-> {t \in Numbering : NumberedUpTo(q, t, k)}]
<1>5. w[0] \in P[0]
  BY <1>4 DEF NumberedUpTo, RangesFollow
<1>6. ASSUME NEW k \in 1 .. n, w[k - 1] \in P[k - 1] PROVE w[k] \in P[k]
  <2>1. k - 1 \in 0 .. n /\ k \in 0 .. n /\ k \in Nat
    OBVIOUS
  <2>2. PICK u \in Numbering : u = w[k - 1] /\ NumberedUpTo(q, u, k - 1)
    BY <1>6, <2>1
  <2>3. PICK b \in Block : b = q[k]
    BY <1>3
  <2>4. PICK t : t = w[k]
    OBVIOUS
  <2>5. t = InitBlock(u, b)
    BY <1>2, <1>4, <2>2, <2>3, <2>4
  <2>6. /\ t \in Numbering /\ BlockNumbered(t.number, t.range, b)
        /\ t.range[b].start = u.cur /\ t.range[b].end = t.cur /\ u.cur <= t.cur
        /\ \A c \in Block \ {b} : t.number[c] = u.number[c] /\ t.range[c] = u.range[c]
    BY <2>5, InitBlockFacts
  <2>7. u.cur \in Nat /\ t.cur \in Nat /\ t.range \in [Block -> Life]
    BY <2>6 DEF Numbering
  <2>8. ASSUME NEW i \in 1 .. k - 1
        PROVE  /\ q[i] \in Block \ {b} /\ BlockNumbered(t.number, t.range, q[i])
               /\ t.range[q[i]] = u.range[q[i]] /\ t.range[q[i]].end \in Nat /\ t.range[q[i]].end <= u.cur
    <3>1. i \in 1 .. n /\ i # k
      BY <1>3
    <3>2. q[i] \in Block \ {b}
      BY <1>3, <2>3, <3>1 DEF IsInjective
    <3>3. BlockNumbered(u.number, u.range, q[i]) /\ u.range[q[i]].end <= u.cur
      BY <2>2 DEF NumberedUpTo
    <3>4. t.number[q[i]] = u.number[q[i]] /\ t.range[q[i]] = u.range[q[i]]
      BY <2>6, <3>2
    <3> QED
      BY <2>7, <3>2, <3>3, <3>4 DEF BlockNumbered, Life
  <2>9. ASSUME NEW i \in 1 .. k PROVE BlockNumbered(t.number, t.range, q[i]) /\ t.range[q[i]].end <= t.cur
    <3>1. CASE i = k
      BY <2>3, <2>6, <2>7, <3>1
    <3>2. CASE i # k
      <4>1. i \in 1 .. k - 1
        BY <2>1, <3>2
      <4> QED
        BY <2>6, <2>7, <2>8, <4>1
    <3> QED
      BY <3>1, <3>2
  <2>10. RangesFollow(q, t.range, k)
    <3> SUFFICES ASSUME NEW i \in 1 .. k, NEW j \in 1 .. k, i < j PROVE t.range[q[i]].end <= t.range[q[j]].start
      BY DEF RangesFollow
    <3>1. i \in 1 .. k - 1
      BY <2>1
    <3>2. CASE j = k
      BY <2>3, <2>6, <2>8, <3>1, <3>2
    <3>3. CASE j # k
      <4>1. j \in 1 .. k - 1
        BY <2>1, <3>3
      <4> QED
        BY <2>2, <2>8, <3>1, <4>1 DEF NumberedUpTo, RangesFollow
    <3> QED
      BY <3>2, <3>3
  <2>11. NumberedUpTo(q, t, k)
    BY <2>9, <2>10 DEF NumberedUpTo
  <2> QED
    BY <2>1, <2>4, <2>6, <2>11
<1>7. w[n] \in P[n]
  <2> HIDE DEF P
  <2> QED
    BY <1>5, <1>6, LevelsKeep
<1> QED
  BY <1>3, <1>4, <1>7 DEF f

-----------------------------------------------------------------------------
(***************************************************************************)
(* The intervals while a block is scanned.                                 *)
(***************************************************************************)
Lives == UNION {[T -> Life] : T \in SUBSET Insts}

EndsIn(iv, v, e)   == v \in DOMAIN iv /\ e <= iv[v].end
StartsIn(iv, v, s) == v \in DOMAIN iv /\ iv[v].start <= s

NumberOf(v) == number[v[1]][v[2]]

\* What the scan of b cannot move the start of v behind.
Lasting(b, v, s) == Kind(v) = "phi" \/ v[1] # b \/ NumberOf(v) <= s

\* Between iv and jv the scan of b went on.
Grown(b, iv, jv) ==
  /\ \A v : \A e \in Nat : EndsIn(iv, v, e) => EndsIn(jv, v, e)
  /\ \A v : \A s \in Nat : Lasting(b, v, s) /\ StartsIn(iv, v, s) => StartsIn(jv, v, s)

\* What the scan of instruction u of block b leaves behind.
GivenBy(b, iv, u) ==
  Kind(u) # "phi" => /\ StartsIn(iv, u, NumberOf(u))
                     /\ \A v \in Inputs(u) : /\ EndsIn(iv, v, NumberOf(u))
                                             /\ Kind(v) = "phi" => StartsIn(iv, v, range[b].start)

LEMMA LivesFacts ==
  ASSUME NEW iv \in Lives
  PROVE  DOMAIN iv \subseteq Insts /\ \A v \in DOMAIN iv : iv[v] \in Life /\ iv[v].start \in Nat /\ iv[v].end \in Nat
BY DEF Lives, Life

LEMMA ExtendAllFacts ==
  ASSUME NEW iv \in Lives, NEW S \in SUBSET Insts, NEW a \in Nat, NEW e \in Nat, NEW b
  PROVE  /\ ExtendAll(iv, S, a, e) \in Lives /\ Grown(b, iv, ExtendAll(iv, S, a, e))
         /\ \A v \in S : EndsIn(ExtendAll(iv, S, a, e), v, e) /\ StartsIn(ExtendAll(iv, S, a, e), v, a)
<1>1. PICK jv : jv = ExtendAll(iv, S, a, e)
  OBVIOUS
<1>2. DOMAIN jv = DOMAIN iv \cup S /\ DOMAIN jv \subseteq Insts
  BY <1>1, LivesFacts DEF ExtendAll
<1>3. ASSUME NEW v \in DOMAIN jv
      PROVE  /\ jv[v] \in Life /\ jv[v].start \in Nat /\ jv[v].end \in Nat
             /\ v \in S => jv[v].start <= a /\ e <= jv[v].end
             /\ v \in DOMAIN iv => jv[v].start <= iv[v].start /\ iv[v].end <= jv[v].end
  <2>1. jv[v] = IF v \in S THEN Extended(iv, v, a, e) ELSE iv[v]
    BY <1>1, <1>2 DEF ExtendAll
  <2>2. CASE v \in S /\ v \in DOMAIN iv
    <3>1. jv[v] = [start |-> Smaller(a, iv[v].start), end |-> Larger(e, iv[v].end)]
      BY <2>1, <2>2 DEF Extended
    <3>2. iv[v].start \in Nat /\ iv[v].end \in Nat
      BY <2>2, LivesFacts
    <3>3. PICK x \in Nat, y \in Nat : x = iv[v].start /\ y = iv[v].end
      BY <3>2
    <3>4. /\ Smaller(a, x) \in Nat /\ Smaller(a, x) <= a /\ Smaller(a, x) <= x
          /\ Larger(e, y) \in Nat /\ e <= Larger(e, y) /\ y <= Larger(e, y)
      BY DEF Smaller, Larger
    <3> QED
      BY <3>1, <3>3, <3>4 DEF Life
  <2>3. CASE v \in S /\ v \notin DOMAIN iv
    <3>1. jv[v] = [start |-> a, end |-> e]
      BY <2>1, <2>3 DEF Extended
    <3> QED
      BY <2>3, <3>1 DEF Life
  <2>4. CASE v \notin S
    <3>1. jv[v] = iv[v] /\ v \in DOMAIN iv
      BY <1>2, <2>1, <2>4
    <3> QED
      BY <2>4, <3>1, LivesFacts
  <2> QED
    BY <2>2, <2>3, <2>4
<1>4. jv \in Lives
  <2>1. jv = [v \in DOMAIN jv |-> jv[v]]
    BY <1>1 DEF ExtendAll
  <2>2. jv \in [DOMAIN jv -> Life]
    BY <1>3, <2>1
  <2> QED
    BY <1>2, <2>2 DEF Lives
<1>5. Grown(b, iv, jv)
  <2>1. ASSUME NEW v, NEW x \in Nat, EndsIn(iv, v, x) PROVE EndsIn(jv, v, x)
    BY <1>2, <1>3, <2>1, LivesFacts DEF EndsIn
  <2>2. ASSUME NEW v, NEW x \in Nat, StartsIn(iv, v, x) PROVE StartsIn(jv, v, x)
    BY <1>2, <1>3, <2>2, LivesFacts DEF StartsIn
  <2> QED
    BY <2>1, <2>2 DEF Grown
<1>6. \A v \in S : EndsIn(jv, v, e) /\ StartsIn(jv, v, a)
  BY <1>2, <1>3 DEF EndsIn, StartsIn
<1> QED
  BY <1>1, <1>4, <1>5, <1>6

LEMMA StartedFacts ==
  ASSUME NEW iv \in Lives, NEW u \in Insts, NEW b, u[1] = b, Kind(u) # "phi", NumberOf(u) \in Nat
  PROVE  /\ Started(iv, u, NumberOf(u)) \in Lives /\ Grown(b, iv, Started(iv, u, NumberOf(u)))
         /\ StartsIn(Started(iv, u, NumberOf(u)), u, NumberOf(u))
<1>1. PICK n \in Nat : n = NumberOf(u)
  OBVIOUS
<1>2. PICK jv : jv = Started(iv, u, n)
  OBVIOUS
<1>3. PICK e : e = IF u \in DOMAIN iv THEN iv[u].end ELSE n + 2
  OBVIOUS
<1>4. e \in Nat
  BY <1>3, LivesFacts
<1>5. /\ DOMAIN jv = DOMAIN iv \cup {u} /\ DOMAIN jv \subseteq Insts
      /\ jv[u] = [start |-> n, end |-> e] /\ \A v \in DOMAIN jv : v # u => jv[v] = iv[v]
  BY <1>2, <1>3, LivesFacts DEF Started
<1>6. jv \in Lives
  <2>1. jv = [v \in DOMAIN jv |-> jv[v]]
    BY <1>2 DEF Started
  <2>2. \A v \in DOMAIN jv : jv[v] \in Life
    BY <1>4, <1>5, LivesFacts DEF Life
  <2>3. jv \in [DOMAIN jv -> Life]
    BY <2>1, <2>2
  <2> QED
    BY <1>5, <2>3 DEF Lives
<1>7. ASSUME NEW v, NEW x \in Nat, EndsIn(iv, v, x) PROVE EndsIn(jv, v, x)
  BY <1>3, <1>5, <1>7 DEF EndsIn
<1>8. ASSUME NEW v, NEW x \in Nat, Lasting(b, v, x), StartsIn(iv, v, x) PROVE StartsIn(jv, v, x)
  <2>1. v = u => n <= x
    BY <1>1, <1>8 DEF Lasting
  <2> QED
    BY <1>5, <1>8, <2>1 DEF StartsIn
<1>9. StartsIn(jv, u, n)
  BY <1>5 DEF StartsIn
<1> QED
  BY <1>1, <1>2, <1>6, <1>7, <1>8, <1>9 DEF Grown

LEMMA GrownTrans ==
  ASSUME NEW b, NEW iv, NEW jv, NEW kv, Grown(b, iv, jv), Grown(b, jv, kv)
  PROVE  Grown(b, iv, kv)
BY DEF Grown

\* The instructions of a block.
OwnInsts(b) == {b} \X DOMAIN code[b]

LEMMA OwnFacts ==
  ASSUME Defined, NEW b \in Block, BlockNumbered(number, range, b), NEW u \in OwnInsts(b)
  PROVE  /\ u \in Insts /\ u[1] = b /\ u[2] \in DOMAIN code[b] /\ Inputs(u) \in SUBSET Insts
         /\ NumberOf(u) \in Nat /\ range[b].start \in Nat /\ range[b].end \in Nat
<1>1. u \in Insts /\ u[1] = b /\ u[2] \in DOMAIN code[b]
  BY DEF OwnInsts, Insts
<1> QED
  BY <1>1, InstFacts DEF BlockNumbered, NumberOf, Life

LEMMA ScanIntervalFacts ==
  ASSUME Defined, NEW b \in Block, BlockNumbered(number, range, b), NEW iv \in Lives, NEW u \in OwnInsts(b)
  PROVE  /\ ScanInterval(iv, u) \in Lives /\ Grown(b, iv, ScanInterval(iv, u))
         /\ GivenBy(b, ScanInterval(iv, u), u)
<1>1. /\ u \in Insts /\ u[1] = b /\ Inputs(u) \in SUBSET Insts
      /\ NumberOf(u) \in Nat /\ range[b].start \in Nat
  BY OwnFacts
<1>2. CASE Kind(u) = "phi"
  <2>1. ScanInterval(iv, u) = iv
    BY <1>2 DEF ScanInterval
  <2> QED
    BY <1>2, <2>1 DEF Grown, GivenBy
<1>3. CASE Kind(u) # "phi"
  <2>1. PICK n \in Nat, S \in SUBSET Insts, a \in Nat : n = NumberOf(u) /\ S = Inputs(u) /\ a = range[b].start
    BY <1>1
  <2>2. PICK jv : jv = Started(iv, u, n)
    OBVIOUS
  <2>3. PICK kv : kv = ExtendAll(jv, S, a, n)
    OBVIOUS
  <2>4. ScanInterval(iv, u) = kv
    BY <1>1, <1>3, <2>1, <2>2, <2>3 DEF ScanInterval, NumberOf
  <2>5. jv \in Lives /\ Grown(b, iv, jv) /\ StartsIn(jv, u, n)
    BY <1>1, <1>3, <2>1, <2>2, StartedFacts
  <2>6. kv \in Lives /\ Grown(b, jv, kv) /\ \A v \in S : EndsIn(kv, v, n) /\ StartsIn(kv, v, a)
    BY <2>3, <2>5, ExtendAllFacts
  <2>7. Lasting(b, u, n)
    BY <2>1 DEF Lasting
  <2>8. StartsIn(kv, u, n)
    BY <2>5, <2>6, <2>7 DEF Grown
  <2>9. GivenBy(b, kv, u)
    BY <2>1, <2>6, <2>8 DEF GivenBy
  <2> QED
    BY <2>4, <2>5, <2>6, <2>9, GrownTrans
<1> QED
  BY <1>2, <1>3

LEMMA GivenKept ==
  ASSUME Defined, NEW b \in Block, BlockNumbered(number, range, b), NEW u \in OwnInsts(b),
         NEW iv, NEW jv, Grown(b, iv, jv), GivenBy(b, iv, u)
  PROVE  GivenBy(b, jv, u)
<1>1. PICK n \in Nat, a \in Nat : n = NumberOf(u) /\ a = range[b].start
  BY OwnFacts
<1>2. Lasting(b, u, n)
  BY <1>1 DEF Lasting
<1>3. \A v : Kind(v) = "phi" => Lasting(b, v, a)
  BY DEF Lasting
<1> QED
  BY <1>1, <1>2, <1>3 DEF GivenBy, Grown

\* The scan is a walk along the instructions.
LEMMA ScanWalk ==
  ASSUME Defined, NEW b \in Block, BlockNumbered(number, range, b), NEW q \in Seq(OwnInsts(b)), NEW iv \in Lives
  PROVE  \E w \in [0 .. Len(q) -> Lives] :
           /\ w[0] = iv /\ w[Len(q)] = FoldLeft(ScanInterval, iv, q)
           /\ \A i \in 1 .. Len(q) : w[i] = ScanInterval(w[i - 1], q[i])
<1> DEFINE X == SUBSET (1 .. Len(q))
           A(h, T) == IF T = {} THEN iv ELSE ScanInterval(h[T \ {Max(T)}], q[Max(T)])
           is(h) == h = [T \in X |-> A(h, T)]
           iter == CHOOSE h : is(h)
           f == [jv \in Lives |-> [u \in OwnInsts(b) |-> ScanInterval(jv, u)]]
<1>1. FoldLeft(ScanInterval, iv, q) = iter[1 .. Len(q)]
  <2> Len(q) \in Nat /\ DOMAIN q = 1 .. Len(q)
    OBVIOUS
  <2> QED
    BY DEF FoldLeft, MapThenFoldSet
<1>2. PICK S, B : S = Lives /\ B = OwnInsts(b)
  OBVIOUS
<1>3. Visitor(f, S, B)
  <2>1. \A jv \in Lives : \A u \in OwnInsts(b) : ScanInterval(jv, u) \in Lives
    BY ScanIntervalFacts
  <2> QED
    BY <1>2, <2>1 DEF Visitor
<1>4. \A jv \in S : \A u \in B : f[jv][u] = ScanInterval(jv, u)
  BY <1>2
<1> HIDE DEF f
<1>5. q \in Seq(B) /\ iv \in S
  BY <1>2
<1>6. PICK h : IsFold(S, f, q, iv, h)
  BY <1>3, <1>5, FoldExists
<1>7. \A T \in X : T # {} => Max(T) \in 1 .. Len(q) /\ q[Max(T)] \in B
  <2>1. \A T \in X : T # {} => Max(T) \in T
    BY <1>5, MaxFacts
  <2>2. \A i \in 1 .. Len(q) : q[i] \in B
    BY <1>5
  <2> HIDE DEF Max
  <2> QED
    BY <2>1, <2>2
<1>8. is(h)
  <2>1. h \in [X -> S] /\ \A T \in X : h[T] = IF T = {} THEN iv ELSE f[h[T \ {Max(T)}]][q[Max(T)]]
    BY <1>6 DEF IsFold
  <2>2. ASSUME NEW T \in X PROVE h[T] = A(h, T)
    <3>1. CASE T = {}
      BY <2>1, <3>1
    <3>2. CASE T # {}
      <4>1. PICK U \in X : U = T \ {Max(T)}
        OBVIOUS
      <4>2. PICK u \in B : u = q[Max(T)]
        BY <1>7, <3>2
      <4>3. h[U] \in S /\ h[T] = f[h[U]][u]
        BY <2>1, <3>2, <4>1, <4>2
      <4> QED
        BY <1>4, <3>2, <4>1, <4>2, <4>3
    <3> QED
      BY <3>1, <3>2
  <2> HIDE DEF A
  <2> QED
    BY <2>1, <2>2
<1>9. is(iter)
  <2> HIDE DEF A
  <2> QED
    BY <1>8
<1> HIDE DEF iter
<1>10. PICK it : it = iter
  OBVIOUS
<1>11. \A T \in X : it[T] = A(it, T)
  BY <1>9, <1>10
<1>12. FoldsOn(S, f, q, iv, it)
  <2>1. ASSUME NEW T \in X, T # {}, it[T \ {Max(T)}] \in S PROVE it[T] = f[it[T \ {Max(T)}]][q[Max(T)]]
    <3>1. it[T] = ScanInterval(it[T \ {Max(T)}], q[Max(T)])
      BY <1>11, <2>1
    <3>2. q[Max(T)] \in B
      BY <1>7, <2>1
    <3>3. PICK jv \in S, u \in B : jv = it[T \ {Max(T)}] /\ u = q[Max(T)]
      BY <2>1, <3>2
    <3>4. f[jv][u] = ScanInterval(jv, u)
      BY <1>4
    <3> HIDE DEF Max
    <3> QED
      BY <3>1, <3>3, <3>4
  <2>2. it[{}] = iv
    BY <1>11
  <2> QED
    BY <2>1, <2>2 DEF FoldsOn
<1>13. PICK w : IsWalk(S, f, q, iv, w) /\ w[Len(q)] = it[1 .. Len(q)]
  BY <1>3, <1>5, <1>12, FoldWalk
<1>14. ASSUME NEW i \in 1 .. Len(q) PROVE w[i] = ScanInterval(w[i - 1], q[i])
  <2>1. i - 1 \in 0 .. Len(q)
    BY <1>5
  <2>2. w[i - 1] \in S /\ q[i] \in B
    BY <1>5, <1>13, <2>1 DEF IsWalk
  <2>3. w[i] = f[w[i - 1]][q[i]]
    BY <1>13 DEF IsWalk
  <2> QED
    BY <1>4, <2>2, <2>3
<1>15. w \in [0 .. Len(q) -> Lives] /\ w[0] = iv
  BY <1>2, <1>13 DEF IsWalk
<1> QED
  BY <1>1, <1>10, <1>13, <1>14, <1>15

\* The scan of the instructions of a block.
LEMMA ScanFacts ==
  ASSUME Defined, NEW b \in Block, BlockNumbered(number, range, b), NEW iv \in Lives
  PROVE  LET jv == FoldLeft(ScanInterval, iv, Backwards(b))
         IN  jv \in Lives /\ Grown(b, iv, jv) /\ \A u \in OwnInsts(b) : GivenBy(b, jv, u)
<1>1. PICK n \in Nat : n = Len(code[b]) /\ DOMAIN code[b] = 1 .. n
  BY InstFacts
<1>2. PICK q : q = Backwards(b)
  OBVIOUS
<1>3. q \in Seq(OwnInsts(b)) /\ Len(q) = n /\ OwnInsts(b) = {q[k] : k \in 1 .. n}
  <2>1. PICK p : p = [i \in 1 .. n |-> <<b, i>>]
    OBVIOUS
  <2>2. p \in Seq(OwnInsts(b)) /\ Len(p) = n /\ Range(p) = OwnInsts(b)
    BY <1>1, <2>1 DEF OwnInsts, Range
  <2>3. q = Reverse(p)
    BY <1>1, <1>2, <2>1 DEF Backwards
  <2>4. q \in Seq(OwnInsts(b)) /\ Len(q) = n /\ Range(q) = OwnInsts(b)
    BY <2>2, <2>3, ReverseFacts
  <2> QED
    BY <2>4 DEF Range
<1>4. PICK w \in [0 .. n -> Lives] : /\ w[0] = iv /\ w[n] = FoldLeft(ScanInterval, iv, q)
                                     /\ \A i \in 1 .. n : w[i] = ScanInterval(w[i - 1], q[i])
  BY <1>3, ScanWalk
<1> DEFINE P == [k \in 0 .. n |-> {jv \in Lives : Grown(b, iv, jv) /\ \A j \in 1 .. k : GivenBy(b, jv, q[j])}]
<1>5. w[0] \in P[0]
  BY <1>4 DEF Grown
<1>6. ASSUME NEW k \in 1 .. n, w[k - 1] \in P[k - 1] PROVE w[k] \in P[k]
  <2>1. k - 1 \in 0 .. n /\ k \in 0 .. n
    OBVIOUS
  <2>2. PICK jv \in Lives : jv = w[k - 1] /\ Grown(b, iv, jv) /\ \A j \in 1 .. k - 1 : GivenBy(b, jv, q[j])
    BY <1>6, <2>1
  <2>3. PICK u \in OwnInsts(b) : u = q[k]
    BY <1>3
  <2>4. PICK kv : kv = ScanInterval(jv, u)
    OBVIOUS
  <2>5. kv \in Lives /\ Grown(b, jv, kv) /\ GivenBy(b, kv, u)
    BY <2>4, ScanIntervalFacts
  <2>6. w[k] = kv
    BY <1>4, <2>2, <2>3, <2>4
  <2>7. ASSUME NEW j \in 1 .. k PROVE GivenBy(b, kv, q[j])
    <3>1. CASE j = k
      BY <2>3, <2>5, <3>1
    <3>2. CASE j # k
      <4>1. j \in 1 .. k - 1 /\ j \in 1 .. n
        BY <3>2
      <4>2. q[j] \in OwnInsts(b) /\ GivenBy(b, jv, q[j])
        BY <1>3, <2>2, <4>1
      <4> QED
        BY <2>5, <4>2, GivenKept
    <3> QED
      BY <3>1, <3>2
  <2>8. Grown(b, iv, kv)
    BY <2>2, <2>5, GrownTrans
  <2> QED
    BY <2>1, <2>5, <2>6, <2>7, <2>8
<1>7. w[n] \in P[n]
  <2> HIDE DEF P
  <2> QED
    BY <1>5, <1>6, LevelsKeep
<1>8. w[n] \in Lives /\ Grown(b, iv, w[n]) /\ \A j \in 1 .. n : GivenBy(b, w[n], q[j])
  BY <1>7
<1> QED
  BY <1>2, <1>3, <1>4, <1>8

\* What is live at the end of a block, or used in it, is live at its start,
\* unless the block defines it.
LEMMA LiveAtStartKeeps ==
  ASSUME Defined, succ \in Cfgs, liveIn \in [Block -> SUBSET Insts], LiveSetsSound, NEW b \in Block,
         NEW v \in Insts, v[1] # b
  PROVE  /\ v \in LiveAtEnd(b) => v \in LiveAtStart(b)
         /\ \A u \in OwnInsts(b) : Kind(u) # "phi" /\ v \in Inputs(u) => v \in LiveAtStart(b)
<1> DEFINE f == [live \in SUBSET Insts |-> [u \in Insts |-> ScanLive(live, u)]]
           P == SUBSET Insts
           Q == {live \in SUBSET Insts : v \in live}
           G == [u \in Insts |-> {live \in SUBSET Insts : Kind(u) # "phi" /\ v \in Inputs(u) => v \in live}]
<1>1. PICK n \in Nat : n = Len(code[b]) /\ DOMAIN code[b] = 1 .. n
  BY InstFacts
<1>2. PICK q : q = Backwards(b)
  OBVIOUS
<1>3. q \in Seq(OwnInsts(b)) /\ Range(q) = OwnInsts(b)
  <2>1. PICK p : p = [i \in 1 .. n |-> <<b, i>>]
    OBVIOUS
  <2>2. p \in Seq(OwnInsts(b)) /\ Range(p) = OwnInsts(b)
    BY <1>1, <2>1 DEF OwnInsts, Range
  <2>3. q = Reverse(p)
    BY <1>1, <1>2, <2>1 DEF Backwards
  <2> QED
    BY <2>2, <2>3, ReverseFacts
<1>4. OwnInsts(b) \subseteq Insts /\ \A u \in OwnInsts(b) : u # v
  BY DEF OwnInsts, Insts
<1>5. q \in Seq(Insts)
  BY <1>3, <1>4
<1>6. PICK start \in SUBSET Insts : start = LiveAtEnd(b)
  BY LiveAtEndFacts
<1>7. ASSUME NEW live \in SUBSET Insts, NEW u \in Insts PROVE ScanLive(live, u) \in SUBSET Insts
  BY InstFacts DEF ScanLive, Removed
<1>8. Visitor(f, SUBSET Insts, Insts)
  BY <1>7 DEF Visitor
<1>9. LiveAtStart(b) = EachOf(f, q, start) \ ({b} \X LeadingPhis(b))
  BY <1>2, <1>6 DEF LiveAtStart
<1>10. v \notin {b} \X LeadingPhis(b)
  OBVIOUS
<1>11. \A live \in SUBSET Insts : \A u \in Insts : f[live][u] = ScanLive(live, u)
  OBVIOUS
<1> HIDE DEF f
<1>12. \A live \in SUBSET Insts : \A u \in OwnInsts(b) : v \in live => v \in ScanLive(live, u)
  BY <1>4 DEF ScanLive, Removed
<1>13. PICK S : S = SUBSET Insts
  OBVIOUS
<1>14. ASSUME v \in start PROVE v \in EachOf(f, q, start)
  <2>1. Q \in SUBSET S /\ start \in Q /\ Visitor(f, S, Insts)
    BY <1>8, <1>13, <1>14
  <2>2. \A t \in Q : \A u \in Range(q) : f[t][u] \in Q
    BY <1>3, <1>4, <1>7, <1>11, <1>12
  <2>3. EachOf(f, q, start) \in Q
    <3> HIDE DEF Q
    <3> QED
      BY <1>5, <2>1, <2>2, EachOfKeeps
  <2> QED
    BY <2>3
<1>15. ASSUME NEW u \in OwnInsts(b), Kind(u) # "phi", v \in Inputs(u) PROVE v \in EachOf(f, q, start)
  <2>1. P \in SUBSET S /\ start \in P /\ Visitor(f, S, Insts)
    BY <1>8, <1>13
  <2>2. \A t \in P : \A x \in Range(q) : f[t][x] \in P
    BY <1>3, <1>4, <1>7, <1>11
  <2>3. \A t \in P : \A x \in Range(q) : f[t][x] \in G[x]
    <3> SUFFICES ASSUME NEW t \in P, NEW x \in Range(q) PROVE f[t][x] \in G[x]
      OBVIOUS
    <3>1. x \in Insts /\ f[t][x] = ScanLive(t, x) /\ ScanLive(t, x) \in SUBSET Insts
      BY <1>3, <1>4, <1>7, <1>11
    <3>2. Kind(x) # "phi" /\ v \in Inputs(x) => v \in ScanLive(t, x)
      BY DEF ScanLive
    <3> QED
      BY <3>1, <3>2
  <2>4. \A t \in P : \A x, y \in Range(q) : t \in G[y] => f[t][x] \in G[y]
    <3> SUFFICES ASSUME NEW t \in P, NEW x \in Range(q), NEW y \in Range(q), t \in G[y] PROVE f[t][x] \in G[y]
      OBVIOUS
    <3>1. x \in OwnInsts(b) /\ x \in Insts /\ y \in Insts /\ f[t][x] = ScanLive(t, x) /\ ScanLive(t, x) \in SUBSET Insts
      BY <1>3, <1>4, <1>7, <1>11
    <3>2. Kind(y) # "phi" /\ v \in Inputs(y) => v \in ScanLive(t, x)
      BY <1>12, <3>1
    <3> QED
      BY <3>1, <3>2
  <2>5. \A x \in Range(q) : EachOf(f, q, start) \in G[x]
    <3> HIDE DEF P, G
    <3> QED
      BY <1>5, <2>1, <2>2, <2>3, <2>4, EachOfBrings
  <2>6. EachOf(f, q, start) \in G[u] /\ u \in Insts
    BY <1>3, <1>4, <2>5
  <2> QED
    BY <1>15, <2>6
<1> QED
  BY <1>6, <1>9, <1>10, <1>14, <1>15

-----------------------------------------------------------------------------
(***************************************************************************)
(* What the blocks that were scanned have left in the intervals.           *)
(***************************************************************************)
\* The instructions that have a result.
Results == {v \in Insts : Kind(v) \in {"phi", "value"}}

\* With the live sets li, v is live at the end of b for a successor that was
\* scanned before b, or for a phi.
LiveOut(li, v, b) ==
  \E c \in SuccSet(succ, b) : (Before(order, b, c) /\ v \in li[c]) \/ v \in PhiInputs(b, c)

\* Instruction u uses v, and is no phi.
Uses(u, v) == Kind(u) # "phi" /\ v \in Inputs(u)

\* The intervals iv cover b as far as the live sets li tell.
BlockCovered(iv, li, b) ==
  \A v \in Results :
    /\ LiveOut(li, v, b) => EndsIn(iv, v, range[b].end) /\ (Kind(v) = "phi" => StartsIn(iv, v, range[b].start))
    /\ \A u \in OwnInsts(b) : Uses(u, v) =>
         EndsIn(iv, v, NumberOf(u)) /\ (Kind(v) = "phi" => StartsIn(iv, v, range[b].start))
    /\ v \in OwnInsts(b) /\ Kind(v) = "value" => StartsIn(iv, v, NumberOf(v))
    /\ IsLoopHeader(b) /\ v \in li[b] => EndsIn(iv, v, LoopEnd(b))

\* The live set of b misses nothing that the others tell.
BlockFlows(li, b) ==
  \A v \in Results : v[1] # b =>
    /\ LiveOut(li, v, b) => v \in li[b]
    /\ \A u \in OwnInsts(b) : Uses(u, v) => v \in li[b]

\* What is left to be scanned is the first part of the order.
FirstPart(q, p) == Len(p) <= Len(q) /\ \A i \in 1 .. Len(p) : p[i] = q[i]

Unnumbered == number = [b \in Block |-> <<>>] /\ range = [b \in Block |-> [start |-> 0, end |-> 0]] /\ interval = << >>

Numbered == /\ range \in [Block -> Life]
            /\ \A b \in Range(order) : BlockNumbered(number, range, b)
            /\ RangesFollow(order, range, Len(order))

CoverInv ==
  /\ stage = "order" => Unnumbered
  /\ stage \in {"scan", "done"} =>
       /\ FirstPart(order, left) /\ Numbered /\ interval \in Lives
       /\ \A b \in Range(order) \ Range(left) : BlockCovered(interval, liveIn, b) /\ BlockFlows(liveIn, b)

\* The live sets lj are those of li at a, and at the blocks that were scanned before a.
SameLive(a, li, lj) ==
  /\ lj[a] = li[a] /\ \A c \in SuccSet(succ, a) : Before(order, a, c) => lj[c] = li[c]
  /\ IsLoopHeader(a) => LoopEnd(a) \in Nat

\* A block that was scanned before stays covered.
LEMMA StaysCovered ==
  ASSUME Defined, NEW b \in Block, NEW iv, NEW jv, Grown(b, iv, jv), NEW li, NEW lj,
         NEW a \in Block, a # b, BlockNumbered(number, range, a), BlockCovered(iv, li, a), BlockFlows(li, a),
         SameLive(a, li, lj)
  PROVE  BlockCovered(jv, lj, a) /\ BlockFlows(lj, a)
<1>1. \A v \in Results : LiveOut(lj, v, a) => LiveOut(li, v, a)
  BY DEF LiveOut, SameLive
<1>2. range[a].start \in Nat /\ range[a].end \in Nat
  BY DEF BlockNumbered, Life
<1>3. \A u \in OwnInsts(a) : NumberOf(u) \in Nat /\ u[1] = a
  BY OwnFacts
<1>4. \A v : \A s : Kind(v) = "phi" => Lasting(b, v, s)
  BY DEF Lasting
<1>5. \A v \in OwnInsts(a) : \A s : Lasting(b, v, s)
  BY <1>3 DEF Lasting
<1>6. \A v : \A e \in Nat : EndsIn(iv, v, e) => EndsIn(jv, v, e)
  BY DEF Grown
<1>7. \A v : \A s \in Nat : Lasting(b, v, s) /\ StartsIn(iv, v, s) => StartsIn(jv, v, s)
  BY DEF Grown
<1>8. BlockCovered(jv, lj, a)
  <2> SUFFICES ASSUME NEW v \in Results
               PROVE  /\ LiveOut(lj, v, a) => EndsIn(jv, v, range[a].end) /\ (Kind(v) = "phi" => StartsIn(jv, v, range[a].start))
                      /\ \A u \in OwnInsts(a) : Uses(u, v) =>
                           EndsIn(jv, v, NumberOf(u)) /\ (Kind(v) = "phi" => StartsIn(jv, v, range[a].start))
                      /\ v \in OwnInsts(a) /\ Kind(v) = "value" => StartsIn(jv, v, NumberOf(v))
                      /\ IsLoopHeader(a) /\ v \in lj[a] => EndsIn(jv, v, LoopEnd(a))
    BY DEF BlockCovered
  <2>1. LiveOut(lj, v, a) => EndsIn(jv, v, range[a].end) /\ (Kind(v) = "phi" => StartsIn(jv, v, range[a].start))
    BY <1>1, <1>2, <1>4, <1>6, <1>7 DEF BlockCovered
  <2>2. ASSUME NEW u \in OwnInsts(a), Uses(u, v)
        PROVE  EndsIn(jv, v, NumberOf(u)) /\ (Kind(v) = "phi" => StartsIn(jv, v, range[a].start))
    BY <1>2, <1>3, <1>4, <1>6, <1>7, <2>2 DEF BlockCovered
  <2>3. v \in OwnInsts(a) /\ Kind(v) = "value" => StartsIn(jv, v, NumberOf(v))
    BY <1>3, <1>5, <1>7 DEF BlockCovered
  <2>4. IsLoopHeader(a) /\ v \in lj[a] => EndsIn(jv, v, LoopEnd(a))
    BY <1>6 DEF BlockCovered, SameLive
  <2> QED
    BY <2>1, <2>2, <2>3, <2>4
<1>9. BlockFlows(lj, a)
  BY <1>1 DEF BlockFlows, SameLive
<1> QED
  BY <1>8, <1>9

\* The order lists the reachable blocks when the analysis uses it.
LEMMA UsedLists ==
  ASSUME LayoutInv, status \in {"done", "used"}
  PROVE  Lists(order) /\ succ \in Cfgs /\ Range(order) \subseteq Block /\ pc = "layout" /\ LoopsReady
<1>1. succ \in Cfgs /\ order \in Seq(Block) /\ Range(order) = Reachable(succ) /\ Range(order) \subseteq Block
  BY UsedFacts
<1>2. pc = "layout"
  BY DEF LayoutInv
<1> QED
  BY <1>1, <1>2 DEF LayoutInv, Laid, Lists

\* The loop of a header is one of a back edge.
LEMMA HeaderEdge ==
  ASSUME LoopsReady, LoopsKnown, NEW b \in Block, IsLoopHeader(b)
  PROVE  /\ loop[b] \in Found(loops, root) /\ loops[loop[b]].header = b
         /\ loops[loop[b]].source \in Reachable(succ) /\ loops[loop[b]].source \in Block
<1>1. loop[b] \in Found(loops, root) /\ loops[loop[b]].header = b
  BY HeaderLoop DEF IsLoopHeader
<1>2. EdgeOf(loops[loop[b]]) \in BackEdges
  BY <1>1 DEF LoopsKnown
<1>3. EdgeOf(loops[loop[b]]) = <<loops[loop[b]].source, loops[loop[b]].header>>
  BY DEF EdgeOf
<1>4. loops[loop[b]].source \in Reachable(succ)
  BY <1>2, <1>3 DEF BackEdges
<1> QED
  BY <1>1, <1>4, ReachableFacts

LEMMA LoopEndTyped ==
  ASSUME LoopsReady, LoopsKnown, range \in [Block -> Life], NEW b \in Block, IsLoopHeader(b)
  PROVE  LoopEnd(b) \in Nat
BY HeaderEdge DEF LoopEnd, Life

\* What was scanned before the current block comes after it.
LEMMA CurrentFacts ==
  ASSUME NEW q, Lists(q), NEW p \in Seq(Block), p # <<>>, FirstPart(q, p)
  PROVE  /\ Last(p) \in Range(q) /\ FirstPart(q, Front(p))
         /\ Range(Front(p)) = Range(p) \ {Last(p)}
         /\ \A a \in Range(q) \ Range(p) : \A c : Before(q, a, c) => c \in Range(q) \ Range(p)
         /\ \A c : Before(q, Last(p), c) => c \in Range(q) \ Range(p)
<1>1. PICK n \in Nat : n = Len(p) - 1 /\ Len(p) = n + 1 /\ DOMAIN p = 1 .. n + 1
  <2>1. Len(p) \in Nat /\ Len(p) # 0
    BY EmptySeq
  <2> QED
    BY <2>1
<1>2. PICK m \in Nat : m = Len(q) /\ DOMAIN q = 1 .. m
  BY DEF Lists
<1>3. n + 1 <= m /\ (\A i \in 1 .. n + 1 : p[i] = q[i] /\ i \in 1 .. m) /\ \A i, j \in 1 .. m : q[i] = q[j] => i = j
  BY <1>1, <1>2 DEF FirstPart, Lists, IsInjective
<1>4. PICK r : r = Front(p)
  OBVIOUS
<1>5. Len(r) = n /\ DOMAIN r = 1 .. n /\ \A i \in 1 .. n : r[i] = p[i] /\ i \in 1 .. n + 1
  <2>1. r = SubSeq(p, 1, n)
    BY <1>1, <1>4 DEF Front
  <2> QED
    BY <1>1, <2>1, SubSeqProperties
<1>6. Last(p) = p[n + 1] /\ n + 1 \in 1 .. n + 1
  BY <1>1 DEF Last
<1>7. Range(p) = {q[i] : i \in 1 .. n + 1} /\ Range(r) = {q[i] : i \in 1 .. n} /\ Range(q) = {q[i] : i \in 1 .. m}
  <2>1. Range(p) = {p[i] : i \in 1 .. n + 1} /\ Range(r) = {r[i] : i \in 1 .. n} /\ Range(q) = {q[i] : i \in 1 .. m}
    BY <1>1, <1>2, <1>5 DEF Range
  <2>2. (\A i \in 1 .. n + 1 : p[i] = q[i]) /\ \A i \in 1 .. n : r[i] = q[i]
    BY <1>3, <1>5
  <2> QED
    BY <2>1, <2>2
<1>8. FirstPart(q, r)
  BY <1>2, <1>3, <1>5 DEF FirstPart
<1>9. Range(r) = Range(p) \ {Last(p)}
  <2>1. \A i \in 1 .. n + 1 : i = n + 1 \/ i \in 1 .. n
    OBVIOUS
  <2>2. \A i \in 1 .. n : q[i] # q[n + 1]
    BY <1>3, <1>6
  <2> QED
    BY <1>3, <1>6, <1>7, <2>1, <2>2
<1>10. ASSUME NEW i \in 1 .. m, n + 1 <= i, NEW c, Before(q, q[i], c) PROVE c \in Range(q) \ Range(p)
  <2>1. PICK k, j \in 1 .. m : k < j /\ q[k] = q[i] /\ q[j] = c
    BY <1>2, <1>10 DEF Before
  <2>2. k = i /\ n + 1 < j
    BY <1>3, <1>10, <2>1
  <2>3. \A x \in 1 .. n + 1 : q[x] # c
    BY <1>3, <2>1, <2>2
  <2> QED
    BY <1>7, <2>1, <2>3
<1>11. ASSUME NEW a \in Range(q) \ Range(p) PROVE \E i \in 1 .. m : n + 1 <= i /\ a = q[i]
  <2>1. PICK i \in 1 .. m : a = q[i]
    BY <1>7
  <2>2. i \notin 1 .. n + 1
    BY <1>7, <1>11, <2>1
  <2> QED
    BY <2>1, <2>2
<1>12. \A a \in Range(q) \ Range(p) : \A c : Before(q, a, c) => c \in Range(q) \ Range(p)
  BY <1>10, <1>11
<1>13. Last(p) = q[n + 1] /\ n + 1 \in 1 .. m
  BY <1>3, <1>6
<1>14. \A c : Before(q, Last(p), c) => c \in Range(q) \ Range(p)
  BY <1>10, <1>13
<1>15. Last(p) \in Range(q)
  BY <1>7, <1>13
<1> QED
  BY <1>4, <1>8, <1>9, <1>12, <1>14, <1>15

\* The scan of a block covers it.
LEMMA ScanCovers ==
  ASSUME ScanInv, NestedInv, CoverInv, stage = "scan", left # <<>>, NEW b, b = Current,
         NEW live, live = LiveAtStart(b),
         NEW iv0, iv0 = ExtendAll(interval, LiveAtEnd(b), range[b].start, range[b].end),
         NEW iv1, iv1 = FoldLeft(ScanInterval, iv0, Backwards(b)),
         NEW jv, jv = IF IsLoopHeader(b) THEN ExtendAll(iv1, live, range[b].start, LoopEnd(b)) ELSE iv1,
         NEW lj, lj = [liveIn EXCEPT ![b] = live]
  PROVE  /\ jv \in Lives /\ FirstPart(order, Front(left))
         /\ \A a \in Range(order) \ Range(Front(left)) : BlockCovered(jv, lj, a) /\ BlockFlows(lj, a)
<1>1. Scanning /\ LayoutInv /\ Defined /\ liveIn \in [Block -> SUBSET Insts] /\ LiveSetsSound
  BY DEF ScanInv
<1>2. Lists(order) /\ succ \in Cfgs /\ Range(order) \subseteq Block /\ LoopsReady /\ LoopsKnown
  BY <1>1, UsedLists DEF Scanning, NestedInv
<1>3. /\ left \in Seq(Block) /\ FirstPart(order, left) /\ Numbered /\ interval \in Lives
      /\ \A a \in Range(order) \ Range(left) : BlockCovered(interval, liveIn, a) /\ BlockFlows(liveIn, a)
  BY <1>1 DEF CoverInv, Scanning
<1>4. /\ b \in Range(order) /\ FirstPart(order, Front(left)) /\ Range(Front(left)) = Range(left) \ {b}
      /\ \A a \in Range(order) \ Range(left) : \A c : Before(order, a, c) => c \in Range(order) \ Range(left)
      /\ \A c : Before(order, b, c) => c \in Range(order) \ Range(left)
  BY <1>2, <1>3, CurrentFacts DEF Current
<1>5. b \in Range(left)
  BY <1>3, FrontFacts DEF Current
<1>6. b \in Block /\ BlockNumbered(number, range, b) /\ range \in [Block -> Life]
      /\ range[b].start \in Nat /\ range[b].end \in Nat
  BY <1>2, <1>3, <1>4 DEF Numbered, BlockNumbered, Life
<1>7. LiveAtEnd(b) \in SUBSET Insts /\ live \in SUBSET Insts
  BY <1>1, <1>2, <1>6, LiveAtEndFacts, LiveAtStartFacts
<1>8. PICK S, s, e : S = LiveAtEnd(b) /\ s = range[b].start /\ e = range[b].end
  OBVIOUS
<1>9. iv0 \in Lives /\ Grown(b, interval, iv0) /\ \A v \in S : EndsIn(iv0, v, e) /\ StartsIn(iv0, v, s)
  BY <1>3, <1>6, <1>7, <1>8, ExtendAllFacts
<1>10. iv1 \in Lives /\ Grown(b, iv0, iv1) /\ \A u \in OwnInsts(b) : GivenBy(b, iv1, u)
  BY <1>1, <1>6, <1>9, ScanFacts
<1>11. /\ jv \in Lives /\ Grown(b, iv1, jv)
       /\ IsLoopHeader(b) => \A v \in live : EndsIn(jv, v, LoopEnd(b))
  <2>1. CASE IsLoopHeader(b)
    <3>1. PICK n \in Nat : n = LoopEnd(b)
      BY <1>2, <1>6, <2>1, LoopEndTyped
    <3> QED
      BY <1>6, <1>7, <1>10, <2>1, <3>1, ExtendAllFacts
  <2>2. CASE ~IsLoopHeader(b)
    BY <1>10, <2>2 DEF Grown
  <2> QED
    BY <2>1, <2>2
<1>12. Grown(b, iv0, jv) /\ Grown(b, interval, jv)
  BY <1>9, <1>10, <1>11, GrownTrans
<1>13. \A u \in OwnInsts(b) : GivenBy(b, jv, u)
  BY <1>1, <1>6, <1>10, <1>11, GivenKept
<1>14. lj[b] = live /\ \A c \in Block \ {b} : lj[c] = liveIn[c]
  BY <1>1, <1>6
<1>15. ASSUME NEW v \in Results, LiveOut(lj, v, b) PROVE v \in S
  <2>1. PICK c \in SuccSet(succ, b) : (Before(order, b, c) /\ v \in lj[c]) \/ v \in PhiInputs(b, c)
    BY <1>15 DEF LiveOut
  <2>2. Before(order, b, c) => c \in Block \ {b}
    BY <1>2, <1>4, BeforeFacts
  <2>3. v \in liveIn[c] \cup PhiInputs(b, c)
    BY <1>14, <2>1, <2>2
  <2> QED
    BY <1>8, <2>1, <2>3 DEF LiveAtEnd
<1>16. BlockCovered(jv, lj, b)
  <2> SUFFICES ASSUME NEW v \in Results
               PROVE  /\ LiveOut(lj, v, b) => EndsIn(jv, v, e) /\ (Kind(v) = "phi" => StartsIn(jv, v, s))
                      /\ \A u \in OwnInsts(b) : Uses(u, v) =>
                           EndsIn(jv, v, NumberOf(u)) /\ (Kind(v) = "phi" => StartsIn(jv, v, s))
                      /\ v \in OwnInsts(b) /\ Kind(v) = "value" => StartsIn(jv, v, NumberOf(v))
                      /\ IsLoopHeader(b) /\ v \in lj[b] => EndsIn(jv, v, LoopEnd(b))
    BY <1>8 DEF BlockCovered
  <2>1. ASSUME LiveOut(lj, v, b) PROVE EndsIn(jv, v, e) /\ (Kind(v) = "phi" => StartsIn(jv, v, s))
    <3>1. EndsIn(iv0, v, e) /\ StartsIn(iv0, v, s) /\ e \in Nat /\ s \in Nat
      BY <1>6, <1>8, <1>9, <1>15, <2>1
    <3>2. Kind(v) = "phi" => Lasting(b, v, s)
      BY DEF Lasting
    <3> QED
      BY <1>12, <3>1, <3>2 DEF Grown
  <2>2. ASSUME NEW u \in OwnInsts(b), Uses(u, v)
        PROVE  EndsIn(jv, v, NumberOf(u)) /\ (Kind(v) = "phi" => StartsIn(jv, v, s))
    BY <1>8, <1>13, <2>2 DEF GivenBy, Uses
  <2>3. v \in OwnInsts(b) /\ Kind(v) = "value" => StartsIn(jv, v, NumberOf(v))
    BY <1>13 DEF GivenBy
  <2>4. IsLoopHeader(b) /\ v \in lj[b] => EndsIn(jv, v, LoopEnd(b))
    BY <1>11, <1>14
  <2> QED
    BY <2>1, <2>2, <2>3, <2>4
<1>17. BlockFlows(lj, b)
  <2> SUFFICES ASSUME NEW v \in Results, v[1] # b
               PROVE  /\ LiveOut(lj, v, b) => v \in lj[b]
                      /\ \A u \in OwnInsts(b) : Uses(u, v) => v \in lj[b]
    BY DEF BlockFlows
  <2>1. v \in Insts
    BY DEF Results
  <2>2. v \in S => v \in live
    BY <1>1, <1>2, <1>6, <1>8, <2>1, LiveAtStartKeeps
  <2>3. \A u \in OwnInsts(b) : Uses(u, v) => v \in live
    BY <1>1, <1>2, <1>6, <2>1, LiveAtStartKeeps DEF Uses
  <2> QED
    BY <1>14, <1>15, <2>2, <2>3
<1>18. ASSUME NEW a \in Range(order) \ Range(Front(left)) PROVE BlockCovered(jv, lj, a) /\ BlockFlows(lj, a)
  <2>1. CASE a = b
    BY <1>16, <1>17, <2>1
  <2>2. CASE a # b
    <3>1. a \in Range(order) \ Range(left) /\ a \in Block
      BY <1>2, <1>4, <2>2
    <3>2. BlockNumbered(number, range, a) /\ BlockCovered(interval, liveIn, a) /\ BlockFlows(liveIn, a)
      BY <1>3, <3>1 DEF Numbered
    <3>3. \A c \in SuccSet(succ, a) : Before(order, a, c) => lj[c] = liveIn[c]
      BY <1>2, <1>4, <1>5, <1>14, <3>1
    <3>4. IsLoopHeader(a) => LoopEnd(a) \in Nat
      BY <1>2, <1>6, <3>1, LoopEndTyped
    <3>5. PICK iv, li : iv = interval /\ li = liveIn
      OBVIOUS
    <3>6. SameLive(a, li, lj)
      BY <1>14, <2>2, <3>1, <3>3, <3>4, <3>5 DEF SameLive
    <3>7. Grown(b, iv, jv) /\ BlockCovered(iv, li, a) /\ BlockFlows(li, a)
      BY <1>12, <3>2, <3>5
    <3> QED
      BY <1>1, <1>6, <2>2, <3>1, <3>2, <3>6, <3>7, StaysCovered
  <2> QED
    BY <2>1, <2>2
<1> QED
  BY <1>4, <1>11, <1>18

-----------------------------------------------------------------------------
\* What does not change with the graph, the code and the numbers.
LEMMA SameCover ==
  ASSUME succ' = succ, order' = order, code' = code, number' = number, range' = range, loops' = loops, loop' = loop
  PROVE  /\ Lives' = Lives /\ (Numbered => Numbered')
         /\ \A iv, li, b : BlockCovered(iv, li, b) => BlockCovered(iv, li, b)'
         /\ \A li, b : BlockFlows(li, b) => BlockFlows(li, b)'
<1>1. Insts' = Insts
  BY SameCode
<1>2. Results' = Results /\ Lives' = Lives
  BY <1>1 DEF Results, Lives, Kind, Inst, Life
<1>3. \A b : BlockNumbered(number, range, b)' = BlockNumbered(number, range, b)
  BY DEF BlockNumbered, Life
<1>4. RangesFollow(order, range, Len(order))' = RangesFollow(order, range, Len(order))
  BY DEF RangesFollow
<1>5. Numbered' = Numbered
  BY <1>3, <1>4 DEF Numbered, Life
<1>6. \A li, v, b : LiveOut(li, v, b)' = LiveOut(li, v, b)
  BY DEF LiveOut, PhiInputs, LeadingPhis, Inputs, Inst
<1>7. \A u, v : Uses(u, v)' = Uses(u, v) /\ NumberOf(u)' = NumberOf(u) /\ Kind(u)' = Kind(u)
  BY DEF Uses, Kind, Inputs, Inst, NumberOf
<1>8. \A b : OwnInsts(b)' = OwnInsts(b) /\ IsLoopHeader(b)' = IsLoopHeader(b) /\ LoopEnd(b)' = LoopEnd(b)
  BY DEF OwnInsts, IsLoopHeader, LoopEnd
<1>9. ASSUME NEW iv, NEW li, NEW b, BlockCovered(iv, li, b) PROVE BlockCovered(iv, li, b)'
  BY <1>2, <1>6, <1>7, <1>8, <1>9 DEF BlockCovered
<1>10. ASSUME NEW li, NEW b, BlockFlows(li, b) PROVE BlockFlows(li, b)'
  BY <1>2, <1>6, <1>7, <1>8, <1>10 DEF BlockFlows
<1> QED
  BY <1>2, <1>5, <1>9, <1>10

\* The intervals of what has no result do not matter.
LEMMA SameResults ==
  ASSUME NEW iv, NEW jv, DOMAIN jv = DOMAIN iv, \A v \in Results : v \in DOMAIN iv => jv[v] = iv[v],
         NEW li, NEW b, BlockCovered(iv, li, b)
  PROVE  BlockCovered(jv, li, b)
<1>1. \A v \in Results : \A e : (EndsIn(iv, v, e) => EndsIn(jv, v, e)) /\ (StartsIn(iv, v, e) => StartsIn(jv, v, e))
  BY DEF EndsIn, StartsIn
<1> QED
  BY <1>1 DEF BlockCovered

-----------------------------------------------------------------------------
LEMMA InitCover == Init /\ LivenessInit /\ Defined => CoverInv
BY DEF LivenessInit, CoverInv, Unnumbered

\* LinearOrder changes neither the numbers nor the intervals.
LEMMA OrderCover == ScanInv /\ CoverInv /\ Order => CoverInv'
<1> SUFFICES ASSUME ScanInv, CoverInv, Order PROVE CoverInv'
  OBVIOUS
<1>1. status # "used" /\ UNCHANGED <<number, range, interval>> /\ stage' = stage
  BY DEF Order, analysis
<1>2. stage = "order"
  BY <1>1 DEF ScanInv, Scanning
<1> QED
  BY <1>1, <1>2 DEF CoverInv, Unnumbered

LEMMA InitLivenessCover == ScanInv /\ CoverInv /\ InitLiveness => CoverInv'
<1> SUFFICES ASSUME ScanInv, CoverInv, InitLiveness PROVE CoverInv'
  OBVIOUS
<1>1. PICK q, s : q = order /\ s = [cur |-> 0, number |-> number, range |-> range]
  OBVIOUS
<1>2. PICK t : t = EachOf([u \in Numbering |-> [b \in Block |-> InitBlock(u, b)]], q, s)
  OBVIOUS
<1>3. /\ stage = "order" /\ status = "done" /\ number' = t.number /\ range' = t.range /\ left' = q /\ stage' = "scan"
      /\ order' = q /\ code' = code /\ interval' = interval
  BY <1>1, <1>2 DEF InitLiveness
<1>4. LayoutInv /\ Defined
  BY DEF ScanInv
<1>5. Lists(q) /\ Range(q) \subseteq Block
  BY <1>1, <1>3, <1>4, UsedLists
<1>6. s \in Numbering /\ interval = << >>
  <2>1. Unnumbered
    BY <1>3 DEF CoverInv
  <2>2. number \in [Block -> Seq(Nat)] /\ range \in [Block -> Life]
    BY <2>1 DEF Unnumbered, Life
  <2> QED
    BY <1>1, <2>1, <2>2 DEF Numbering, Unnumbered
<1>7. t \in Numbering /\ NumberedUpTo(q, t, Len(q))
  <2>1. q \in Seq(Block) /\ IsInjective(q)
    BY <1>5 DEF Lists
  <2> QED
    BY <1>2, <1>4, <1>6, <2>1, NumberedFacts
<1>8. PICK n : n = Len(q)
  OBVIOUS
<1>9. t.range \in [Block -> Life] /\ (\A b \in Range(q) : BlockNumbered(t.number, t.range, b)) /\ RangesFollow(q, t.range, n)
  <2>1. \A b \in Range(q) : \E i \in 1 .. Len(q) : b = q[i]
    BY <1>5 DEF Lists, Range
  <2> QED
    BY <1>7, <1>8, <2>1 DEF Numbering, NumberedUpTo
<1>10. PICK nb, rg : nb = number' /\ rg = range'
  OBVIOUS
<1>11. rg \in [Block -> Life] /\ (\A b \in Range(q) : BlockNumbered(nb, rg, b)) /\ RangesFollow(q, rg, n)
  BY <1>3, <1>9, <1>10
<1>12. Numbered'
  <2>1. \A b : BlockNumbered(nb, rg, b) => BlockNumbered(number, range, b)'
    BY <1>3, <1>10 DEF BlockNumbered, Life
  <2>2. RangesFollow(q, rg, n) => RangesFollow(order, range, Len(order))'
    BY <1>3, <1>8, <1>10 DEF RangesFollow
  <2> QED
    BY <1>3, <1>10, <1>11, <2>1, <2>2 DEF Numbered, Life
<1>13. interval' \in Lives'
  <2>1. << >> \in [{} -> Life]
    OBVIOUS
  <2> QED
    BY <1>3, <1>6, <2>1 DEF Lives, Life
<1>14. FirstPart(q, q)
  <2>1. Len(q) \in Nat
    BY <1>5 DEF Lists
  <2> QED
    BY <2>1 DEF FirstPart
<1>15. FirstPart(order, left)' /\ Range(order)' \ Range(left)' = {}
  BY <1>3, <1>14
<1> QED
  BY <1>3, <1>12, <1>13, <1>15 DEF CoverInv

\* The scan of a block covers it, and leaves the others covered.
LEMMA ScanBlockCover == ScanInv /\ NestedInv /\ CoverInv /\ ScanBlock => CoverInv'
<1> SUFFICES ASSUME ScanInv, NestedInv, CoverInv, ScanBlock PROVE CoverInv'
  OBVIOUS
<1>1. PICK b : b = Current
  OBVIOUS
<1>2. PICK live, iv0 : live = LiveAtStart(b) /\ iv0 = ExtendAll(interval, LiveAtEnd(b), range[b].start, range[b].end)
  OBVIOUS
<1>3. PICK iv1 : iv1 = FoldLeft(ScanInterval, iv0, Backwards(b))
  OBVIOUS
<1>4. PICK jv, lj : /\ jv = IF IsLoopHeader(b) THEN ExtendAll(iv1, live, range[b].start, LoopEnd(b)) ELSE iv1
                    /\ lj = [liveIn EXCEPT ![b] = live]
  OBVIOUS
<1>5. /\ stage = "scan" /\ left # <<>> /\ liveIn' = lj /\ interval' = jv /\ left' = Front(left)
      /\ UNCHANGED allVars /\ code' = code /\ number' = number /\ range' = range /\ stage' = stage
  BY <1>1, <1>2, <1>3, <1>4 DEF ScanBlock
<1>6. succ' = succ /\ loops' = loops /\ loop' = loop /\ order' = order
  BY <1>5 DEF allVars, layout, vars
<1>7. PICK p : p = Front(left)
  OBVIOUS
<1>8. /\ jv \in Lives /\ FirstPart(order, p)
      /\ \A a \in Range(order) \ Range(p) : BlockCovered(jv, lj, a) /\ BlockFlows(lj, a)
  BY <1>1, <1>2, <1>3, <1>4, <1>5, <1>7, ScanCovers
<1>9. Numbered
  BY <1>5 DEF CoverInv
<1>10. /\ Lives' = Lives /\ Numbered'
       /\ \A a : BlockCovered(jv, lj, a) => BlockCovered(jv, lj, a)'
       /\ \A a : BlockFlows(lj, a) => BlockFlows(lj, a)'
  BY <1>5, <1>6, <1>9, SameCover
<1>11. \A a \in Range(order) \ Range(p) : BlockCovered(interval, liveIn, a)' /\ BlockFlows(liveIn, a)'
  BY <1>5, <1>8, <1>10
<1>12. FirstPart(order, left)' /\ Range(order)' \ Range(left)' = Range(order) \ Range(p)
  BY <1>5, <1>6, <1>7, <1>8
<1> QED
  BY <1>5, <1>8, <1>10, <1>11, <1>12 DEF CoverInv

\* The end of the scan, a crash, and steps that change nothing.
LEMMA FinishCover ==
  ASSUME CoverInv, UNCHANGED <<allVars, code, left, number, range, liveIn>>,
         \/ stage' = stage /\ interval' = interval
         \/ stage' = "crash"
         \/ SetLiveIntervals
  PROVE  CoverInv'
<1>1. /\ succ' = succ /\ loops' = loops /\ loop' = loop /\ order' = order /\ code' = code /\ number' = number
      /\ range' = range /\ liveIn' = liveIn /\ left' = left
  BY DEF allVars, layout, vars
<1>2. CASE stage' = stage /\ stage = "order" /\ interval' = interval
  BY <1>1, <1>2 DEF CoverInv, Unnumbered
<1>3. CASE stage' \notin {"order", "scan", "done"}
  BY <1>3 DEF CoverInv
<1>4. ASSUME stage \in {"scan", "done"}, stage' \in {"scan", "done"}, interval' = interval \/ SetLiveIntervals PROVE CoverInv'
  <2>1. PICK iv, jv, li : iv = interval /\ jv = interval' /\ li = liveIn
    OBVIOUS
  <2>2. FirstPart(order, left) /\ Numbered /\ iv \in Lives
    BY <1>4, <2>1 DEF CoverInv
  <2>3. \A b \in Range(order) \ Range(left) : BlockCovered(iv, li, b) /\ BlockFlows(li, b)
    BY <1>4, <2>1 DEF CoverInv
  <2>4. /\ jv \in Lives /\ DOMAIN jv = DOMAIN iv
        /\ \A v \in Results : v \in DOMAIN iv => jv[v] = iv[v]
    <3>1. CASE interval' = interval
      BY <2>1, <2>2, <3>1
    <3>2. CASE SetLiveIntervals
      <4>1. jv = [v \in DOMAIN iv |-> IF Kind(v) \in {"jump", "void", "cmp"} THEN Reset(iv[v]) ELSE iv[v]]
        BY <2>1, <3>2 DEF SetLiveIntervals
      <4>2. DOMAIN jv = DOMAIN iv /\ \A v \in DOMAIN iv : jv[v] = iv[v] \/ jv[v] = [start |-> 0, end |-> 0]
        BY <4>1 DEF Reset
      <4>3. \A v \in DOMAIN iv : jv[v] \in Life
        BY <2>2, <4>2, LivesFacts DEF Life
      <4>4. jv \in [DOMAIN iv -> Life]
        BY <4>1, <4>3
      <4>5. DOMAIN iv \subseteq Insts
        BY <2>2, LivesFacts
      <4> QED
        BY <4>1, <4>4, <4>5 DEF Lives, Results
    <3> QED
      BY <1>4, <3>1, <3>2
  <2>5. \A b \in Range(order) \ Range(left) : BlockCovered(jv, li, b)
    BY <2>3, <2>4, SameResults
  <2>6. /\ Lives' = Lives /\ Numbered'
        /\ \A b : BlockCovered(jv, li, b) => BlockCovered(jv, li, b)'
        /\ \A b : BlockFlows(li, b) => BlockFlows(li, b)'
    BY <1>1, <2>2, SameCover
  <2>7. liveIn' = li /\ interval' = jv
    BY <1>1, <2>1
  <2>8. \A b \in Range(order) \ Range(left) : BlockCovered(interval, liveIn, b)' /\ BlockFlows(liveIn, b)'
    BY <2>3, <2>5, <2>6, <2>7
  <2>9. FirstPart(order, left)' /\ Range(order)' \ Range(left)' = Range(order) \ Range(left)
    BY <1>1, <2>2
  <2> QED
    BY <1>4, <2>4, <2>6, <2>7, <2>8, <2>9 DEF CoverInv
<1>5. stage \in {"order", "scan", "done"} \/ stage \notin {"order", "scan", "done"}
  OBVIOUS
<1> QED
  BY <1>2, <1>3, <1>4 DEF SetLiveIntervals

\* The invariant of the layout holds while the analysis runs.
LEMMA LivenessNested == ScanInv /\ NestedInv /\ [LivenessNext]_liveVars => NestedInv'
<1> SUFFICES ASSUME ScanInv, NestedInv, [LivenessNext]_liveVars PROVE NestedInv'
  OBVIOUS
<1>1. LayoutInv
  BY DEF ScanInv
<1>2. CASE Order
  BY <1>1, <1>2, NestedStep DEF Order
<1>3. CASE InitLiveness
  <2>1. UNCHANGED <<vars, ends, rpo, order>> /\ status = "done" /\ status' = "used"
    BY <1>3 DEF InitLiveness
  <2> QED
    BY <1>1, <2>1, FinishNested
<1>4. CASE UNCHANGED allVars
  <2>1. UNCHANGED <<vars, ends, rpo, order>> /\ status' = status
    BY <1>4 DEF allVars, layout
  <2> QED
    BY <1>1, <2>1, FinishNested
<1> QED
  BY <1>2, <1>3, <1>4 DEF LivenessNext, ScanBlock, ScanCrash, SetLiveIntervals, Returned, liveVars

\* Every step of the analysis keeps what the scanned blocks have left behind.
THEOREM CoverInvariant == LivenessSpec => [](ScanInv /\ NestedInv /\ CoverInv)
<1>1. Init /\ LivenessInit /\ Defined => NestedInv
  BY InitNested
<1>2. ScanInv /\ NestedInv /\ CoverInv /\ [LivenessNext]_liveVars => CoverInv'
  <2> SUFFICES ASSUME ScanInv, NestedInv, CoverInv, [LivenessNext]_liveVars PROVE CoverInv'
    OBVIOUS
  <2>1. CASE SetLiveIntervals
    <3>1. UNCHANGED <<allVars, code, left, number, range, liveIn>>
      BY <2>1 DEF SetLiveIntervals
    <3> QED
      BY <2>1, <3>1, FinishCover
  <2>2. CASE ScanCrash
    BY <2>2, FinishCover DEF ScanCrash, analysis
  <2>3. CASE UNCHANGED liveVars
    BY <2>3, FinishCover DEF liveVars, analysis
  <2> QED
    BY <2>1, <2>2, <2>3, OrderCover, InitLivenessCover, ScanBlockCover DEF LivenessNext, Returned
<1> QED
  BY ScanInvariant, InitCover, LivenessNested, <1>1, <1>2, PTL DEF LivenessSpec

-----------------------------------------------------------------------------
(***************************************************************************)
(* What the scan has left behind when it is through, in a graph for which  *)
(* one pass is enough.                                                     *)
(***************************************************************************)
Scanned ==
  /\ succ \in Cfgs /\ Lists(order) /\ Forward(order) /\ NoSelfEdges /\ Proper /\ Defined /\ LiveSetsSound
  /\ LoopsReady /\ LoopsKnown /\ LoopsNested /\ \A l \in Found(loops, root) : Settled(order, l)
  /\ Numbered /\ interval \in Lives
  /\ \A b \in Reachable(succ) : BlockCovered(interval, liveIn, b) /\ BlockFlows(liveIn, b)

LEMMA DoneScanned ==
  ASSUME ScanInv, NestedInv, CoverInv, stage = "done", Structured, NoSelfEdges, UsesDominated, PhiInputsLocal, ForwardLayout
  PROVE  Scanned /\ Range(order) = Reachable(succ)
<1>1. LayoutInv /\ Defined /\ LiveSetsSound /\ status = "used" /\ left = <<>>
  BY DEF ScanInv, Scanning
<1>2. Lists(order) /\ succ \in Cfgs /\ LoopsReady /\ pc = "layout"
  BY <1>1, UsedLists
<1>3. Range(order) = Reachable(succ)
  BY <1>2 DEF Lists
<1>4. LoopsKnown /\ LoopsNested /\ \A l \in Found(loops, root) : Settled(order, l)
  BY <1>1, <1>2 DEF NestedInv
<1>5. Range(left) = {}
  BY <1>1 DEF Range
<1>6. Numbered /\ interval \in Lives /\ \A b \in Reachable(succ) : BlockCovered(interval, liveIn, b) /\ BlockFlows(liveIn, b)
  BY <1>3, <1>5 DEF CoverInv
<1> QED
  BY <1>1, <1>2, <1>3, <1>4, <1>6 DEF Scanned, Proper, ForwardLayout

\* A loop of a graph that was scanned.
LEMMA ScannedLoop ==
  ASSUME Scanned, NEW l \in Found(loops, root)
  PROVE  LET s == loops[l].source
             h == loops[l].header
         IN  /\ BodyOf(l) = NaturalLoop(succ, s, h) /\ BodyOf(l) \subseteq Reachable(succ)
             /\ s \in BodyOf(l) /\ h \in BodyOf(l) /\ IsLoopHeader(h) /\ LoopEnd(h) = range[s].end
             /\ \A b \in BodyOf(l) : Dominates(succ, h, b)
<1>1. PICK s, h : s = loops[l].source /\ h = loops[l].header
  OBVIOUS
<1>2. LoopsReady /\ LoopsNested /\ LoopsKnown /\ succ \in Cfgs
  BY DEF Scanned
<1>3. BodyOf(l) \subseteq Reachable(succ) /\ s \in BodyOf(l) /\ h \in BodyOf(l) /\ loop[h] = l
  BY <1>1, <1>2, NestedFacts
<1>4. IsLoopHeader(h) /\ LoopEnd(h) = range[s].end
  <2>1. loop[h] # Null
    BY <1>1, <1>2, <1>3, NestedFacts
  <2> QED
    BY <1>1, <1>3, <2>1 DEF IsLoopHeader, LoopEnd
<1>5. BodyOf(l) = NaturalLoop(succ, s, h)
  BY <1>1, <1>2 DEF LoopsKnown, LoopsNested
<1>6. <<s, h>> \in BackEdges
  BY <1>1, <1>2 DEF LoopsKnown, EdgeOf
<1>7. \A b \in BodyOf(l) : Dominates(succ, h, b)
  <2>1. PICK e \in BackEdges : e = <<s, h>>
    BY <1>6
  <2>2. \A b \in NaturalLoop(succ, e[1], e[2]) : Dominates(succ, e[2], b)
    BY <1>2, BackEdgeFacts
  <2> QED
    BY <1>5, <2>1, <2>2
<1> QED
  BY <1>1, <1>3, <1>4, <1>5, <1>7

\* An edge that does not lead forward in the order closes a loop.
LEMMA BackwardEdge ==
  ASSUME Scanned, NEW b \in Reachable(succ), NEW c \in SuccSet(succ, b), ~Before(order, b, c)
  PROVE  \E l \in Found(loops, root) : loops[l].source = b /\ loops[l].header = c /\ b # c
<1>1. c \in Reachable(succ) /\ b \in Block /\ c \in Block /\ b # c
  BY ReachableStep DEF Scanned, NoSelfEdges
<1>2. Before(order, c, b)
  BY <1>1, BeforeFacts DEF Scanned
<1>3. Dominates(succ, c, b)
  BY <1>2 DEF Before, Forward, Scanned
<1>4. <<b, c>> \in BackEdges
  BY <1>1, <1>3 DEF BackEdges, CheckDominance, StrictDominators
<1>5. PICK l \in Found(loops, root) : EdgeOf(loops[l]) = <<b, c>>
  BY <1>4 DEF Scanned, LoopsKnown
<1> QED
  BY <1>1, <1>5 DEF EdgeOf

\* A loop is entered at its header only.
LEMMA BodyPred ==
  ASSUME Scanned, NEW l \in Found(loops, root), NEW c \in BodyOf(l), c # loops[l].header,
         NEW b \in Reachable(succ), c \in SuccSet(succ, b)
  PROVE  b \in BodyOf(l)
<1>1. PICK s, h : s = loops[l].source /\ h = loops[l].header
  OBVIOUS
<1>2. BodyOf(l) = NaturalLoop(succ, s, h) /\ h \in BodyOf(l)
  BY <1>1, ScannedLoop
<1>3. succ \in Cfgs /\ b \in Block /\ c \in Block
  BY ReachableStep DEF Scanned
<1>4. CASE b = h
  BY <1>2, <1>4
<1>5. CASE b # h
  <2>1. s \in ReachFrom(succ, Block \ {h}, c)
    BY <1>1, <1>2 DEF NaturalLoop
  <2>2. c \in ReachFrom(succ, Block \ {h}, b)
    BY <1>1, <1>3, ReachSelf, ReachStep
  <2>3. s \in ReachFrom(succ, Block \ {h}, b)
    BY <1>3, <2>1, <2>2, ReachTrans
  <2> QED
    BY <1>2, <1>5, <2>3 DEF NaturalLoop
<1> QED
  BY <1>4, <1>5

\* The ranges of the blocks, and the numbers inside them.
LEMMA RangeFacts ==
  ASSUME Scanned, NEW a \in Reachable(succ), NEW b \in Reachable(succ)
  PROVE  /\ range[a].start \in Nat /\ range[a].end \in Nat /\ range[a].start <= range[a].end
         /\ \A v \in OwnInsts(a) : NumberOf(v) \in Nat /\ range[a].start <= NumberOf(v) /\ NumberOf(v) <= range[a].end
         /\ Before(order, a, b) => range[a].end <= range[b].start
<1>1. Lists(order) /\ Numbered /\ Range(order) = Reachable(succ)
  BY DEF Scanned, Lists
<1>2. BlockNumbered(number, range, a)
  BY <1>1 DEF Numbered
<1>3. range[a].start \in Nat /\ range[a].end \in Nat /\ range[a].start <= range[a].end
  BY <1>2 DEF BlockNumbered, Life
<1>4. ASSUME NEW v \in OwnInsts(a)
      PROVE  NumberOf(v) \in Nat /\ range[a].start <= NumberOf(v) /\ NumberOf(v) <= range[a].end
  <2>1. v[1] = a /\ v[2] \in DOMAIN code[a]
    BY DEF OwnInsts
  <2> QED
    BY <1>2, <2>1 DEF BlockNumbered, NumberOf
<1>5. ASSUME Before(order, a, b) PROVE range[a].end <= range[b].start
  <2>1. PICK i, j \in DOMAIN order : i < j /\ order[i] = a /\ order[j] = b
    BY <1>5 DEF Before
  <2>2. DOMAIN order = 1 .. Len(order)
    BY <1>1 DEF Lists
  <2> QED
    BY <1>1, <2>1, <2>2 DEF Numbered, RangesFollow
<1> QED
  BY <1>3, <1>4, <1>5

\* No block of a loop ends behind the loop.
LEMMA EndsInLoop ==
  ASSUME Scanned, NEW l \in Found(loops, root), NEW b \in BodyOf(l)
  PROVE  range[b].end \in Nat /\ LoopEnd(loops[l].header) \in Nat /\ range[b].end <= LoopEnd(loops[l].header)
<1>1. PICK s, h : s = loops[l].source /\ h = loops[l].header
  OBVIOUS
<1>2. BodyOf(l) \subseteq Reachable(succ) /\ s \in BodyOf(l) /\ LoopEnd(h) = range[s].end
  BY <1>1, ScannedLoop
<1>3. Lists(order) /\ Settled(order, l) /\ Range(order) = Reachable(succ)
  BY DEF Scanned, Lists
<1>4. loop[s] = l
  BY <1>1, NestedFacts DEF Scanned
<1>5. PICK i \in DOMAIN order : order[i] = s /\ BodyOf(l) \subseteq {order[j] : j \in 1 .. i}
  BY <1>1, <1>2, <1>3, <1>4 DEF Settled
<1>6. PICK j \in 1 .. i : b = order[j]
  BY <1>5
<1>7. DOMAIN order = 1 .. Len(order) /\ Len(order) \in Nat
  BY <1>3 DEF Lists
<1>8. b = s \/ Before(order, b, s)
  BY <1>5, <1>6, <1>7 DEF Before
<1>9. b \in Reachable(succ) /\ s \in Reachable(succ)
  BY <1>2
<1>10. /\ range[b].end \in Nat /\ range[s].start \in Nat /\ range[s].end \in Nat /\ range[s].start <= range[s].end
       /\ Before(order, b, s) => range[b].end <= range[s].start
  BY <1>9, RangeFacts
<1> QED
  BY <1>1, <1>2, <1>8, <1>10

-----------------------------------------------------------------------------
\* The live sets tell that v is live in b: the one of b, or of the header of a
\* loop around b.
InLive(v, b) ==
  \/ v \in liveIn[b]
  \/ \E l \in Found(loops, root) : b \in BodyOf(l) /\ b # loops[l].header /\ v \in liveIn[loops[l].header]

\* One pass misses a live value only inside a loop, and there the header has it.
LEMMA EntersInLive ==
  ASSUME Scanned, NEW v \in Results, NEW b \in EntersLive(v), b \in Reachable(succ)
  PROVE  InLive(v, b)
<1> DEFINE G == {x \in Block : x \in Reachable(succ) => InLive(v, x)}
<1>1. succ \in Cfgs /\ Defined /\ Proper /\ \A x \in Reachable(succ) : BlockFlows(liveIn, x)
  BY DEF Scanned
<1>2. ASSUME NEW x \in UsedIn(v) PROVE x \in G
  <2>1. x \in Block /\ x # v[1]
    BY DEF UsedIn
  <2> SUFFICES ASSUME x \in Reachable(succ) PROVE v \in liveIn[x]
    BY <2>1 DEF InLive
  <2>2. PICK i \in DOMAIN code[x] : code[x][i].kind # "phi" /\ v \in Inputs(<<x, i>>)
    BY DEF UsedIn
  <2>3. <<x, i>> \in OwnInsts(x) /\ Uses(<<x, i>>, v)
    BY <2>2 DEF OwnInsts, Uses, Kind, Inst
  <2> QED
    BY <1>1, <2>1, <2>3 DEF BlockFlows
<1>3. PhiFrom(v) \subseteq {v[1]}
  BY <1>1, PhiFromOwn DEF Proper
<1>4. ASSUME NEW x \in Block \ {v[1]}, NEW y \in Block \ {v[1]}, y \in SuccSet(succ, x), y \in G PROVE x \in G
  <2> SUFFICES ASSUME x \in Reachable(succ) PROVE InLive(v, x)
    OBVIOUS
  <2>1. y \in Reachable(succ) /\ InLive(v, y)
    BY <1>1, <1>4, ReachableStep
  <2>2. CASE v \in liveIn[y] /\ Before(order, x, y)
    <3>1. LiveOut(liveIn, v, x)
      BY <1>4, <2>2 DEF LiveOut
    <3>2. v \in liveIn[x]
      BY <1>1, <1>4, <3>1 DEF BlockFlows
    <3> QED
      BY <3>2 DEF InLive
  <2>3. CASE v \in liveIn[y] /\ ~Before(order, x, y)
    <3>1. PICK l \in Found(loops, root) : loops[l].source = x /\ loops[l].header = y /\ x # y
      BY <1>4, <2>3, BackwardEdge
    <3>2. x \in BodyOf(l)
      BY <3>1, ScannedLoop
    <3> QED
      BY <2>3, <3>1, <3>2 DEF InLive
  <2>4. CASE v \notin liveIn[y]
    <3>1. PICK l \in Found(loops, root) : y \in BodyOf(l) /\ y # loops[l].header /\ v \in liveIn[loops[l].header]
      BY <2>1, <2>4 DEF InLive
    <3>2. x \in BodyOf(l)
      BY <1>4, <3>1, BodyPred
    <3> QED
      BY <3>1, <3>2 DEF InLive
  <2> QED
    BY <2>2, <2>3, <2>4
<1>5. EntersLive(v) \subseteq G
  <2> HIDE DEF G
  <2> QED
    BY <1>2, <1>3, <1>4, EntersWithin
<1> QED
  BY <1>5

\* What a phi takes is live at the end of the block that it takes it from.
LEMMA PhiLiveOut ==
  ASSUME Scanned, NEW v, NEW b \in PhiFrom(v)
  PROVE  b = v[1] /\ LiveOut(liveIn, v, b)
<1>1. b = v[1]
  BY PhiFromOwn DEF Scanned, Proper
<1>2. PICK c \in SuccSet(succ, b) : \E i \in LeadingPhis(c) : <<v, b>> \in Inst(<<c, i>>).ins
  BY DEF PhiFrom
<1>3. PICK i \in LeadingPhis(c) : <<v, b>> \in Inst(<<c, i>>).ins
  BY <1>2
<1>4. v \in Inputs(<<c, i>>)
  <2>1. <<v, b>>[1] = v
    OBVIOUS
  <2> QED
    BY <1>3, <2>1 DEF Inputs
<1>5. v \in PhiInputs(b, c)
  BY <1>1, <1>4 DEF PhiInputs
<1> QED
  BY <1>1, <1>5 DEF LiveOut

LEMMA EndsEarlier ==
  ASSUME NEW iv \in Lives, NEW v, NEW e \in Nat, NEW f \in Nat, e <= f, EndsIn(iv, v, f)
  PROVE  EndsIn(iv, v, e)
BY LivesFacts DEF EndsIn

\* Where a value leaves a block live its interval lasts to the end of the block.
LEMMA LeavesCovered ==
  ASSUME Scanned, NEW v \in Results, NEW b \in LeavesLive(v), b \in Reachable(succ)
  PROVE  EndsIn(interval, v, range[b].end)
<1>1. succ \in Cfgs /\ Defined /\ Proper
  BY DEF Scanned
<1>2. LiveOut(liveIn, v, b) => EndsIn(interval, v, range[b].end)
  BY DEF Scanned, BlockCovered
<1>3. CASE b \in PhiFrom(v)
  BY <1>1, <1>2, <1>3, PhiLiveOut
<1>4. CASE b \notin PhiFrom(v)
  <2>1. PICK c \in SuccSet(succ, b) : c \in EntersLive(v)
    BY <1>4 DEF LeavesLive
  <2>2. c \in Reachable(succ)
    BY <1>1, ReachableStep
  <2>3. InLive(v, c)
    BY <2>1, <2>2, EntersInLive
  <2>4. CASE v \in liveIn[c] /\ Before(order, b, c)
    BY <1>2, <2>4 DEF LiveOut
  <2>5. CASE v \in liveIn[c] /\ ~Before(order, b, c)
    <3>1. PICK l \in Found(loops, root) : loops[l].source = b /\ loops[l].header = c
      BY <2>5, BackwardEdge
    <3>2. IsLoopHeader(c) /\ LoopEnd(c) = range[b].end
      BY <3>1, ScannedLoop
    <3> QED
      BY <2>2, <2>5, <3>2 DEF Scanned, BlockCovered
  <2>6. CASE v \notin liveIn[c]
    <3>1. PICK l \in Found(loops, root) : c \in BodyOf(l) /\ c # loops[l].header /\ v \in liveIn[loops[l].header]
      BY <2>3, <2>6 DEF InLive
    <3>2. b \in BodyOf(l)
      BY <3>1, BodyPred
    <3>3. PICK h : h = loops[l].header
      OBVIOUS
    <3>4. h \in Reachable(succ) /\ IsLoopHeader(h)
      BY <3>3, ScannedLoop
    <3>5. EndsIn(interval, v, LoopEnd(h))
      BY <3>1, <3>3, <3>4 DEF Scanned, BlockCovered
    <3>6. range[b].end \in Nat /\ LoopEnd(h) \in Nat /\ range[b].end <= LoopEnd(h)
      BY <3>2, <3>3, EndsInLoop
    <3> QED
      BY <3>5, <3>6, EndsEarlier DEF Scanned
  <2> QED
    BY <2>4, <2>5, <2>6
<1> QED
  BY <1>3, <1>4

-----------------------------------------------------------------------------
\* A value that enters some block live is live at the end of its own: the first
\* such block has a predecessor before it, which can only be that one, and no
\* loop around it has a header that the value enters live.
LEMMA EntersFromOwn ==
  ASSUME Scanned, NEW v \in Results, v[1] \in Reachable(succ), NEW x \in EntersLive(v), x \in Reachable(succ)
  PROVE  LiveOut(liveIn, v, v[1])
<1>1. succ \in Cfgs /\ Defined /\ Proper /\ Lists(order) /\ Forward(order) /\ LiveSetsSound
  BY DEF Scanned
<1>2. v[1] \in Block /\ Reachable(succ) \subseteq Block
  BY ReachableFacts
<1> DEFINE T == {j \in DOMAIN order : order[j] \in EntersLive(v)}
<1>3. DOMAIN order \subseteq Nat /\ Reachable(succ) = {order[j] : j \in DOMAIN order}
      /\ \A i, j \in DOMAIN order : order[i] = order[j] => i = j
  BY <1>1 DEF Lists, Range, IsInjective
<1>4. PICK m \in T : \A k \in T : m <= k
  <2>1. T \in SUBSET Nat /\ T # {}
    BY <1>3
  <2> HIDE DEF T
  <2> QED
    BY <2>1, LeastNumber
<1>5. PICK b \in Reachable(succ) : b = order[m] /\ b \in EntersLive(v)
  BY <1>3, <1>4
<1>6. ASSUME NEW a \in EntersLive(v), Before(order, a, b) PROVE FALSE
  <2>1. PICK i, j \in DOMAIN order : i < j /\ order[i] = a /\ order[j] = b
    BY <1>6 DEF Before
  <2>2. i \in T /\ j = m /\ i \in Nat /\ m \in Nat
    BY <1>3, <1>4, <1>5, <1>6, <2>1
  <2>3. m <= i
    BY <1>4, <2>2
  <2> QED
    BY <2>1, <2>2, <2>3
<1>7. Dominates(succ, v[1], b) /\ v[1] # b
  BY <1>1, <1>2, <1>5, EntersDominated
<1>8. b # Root
  BY <1>2, <1>7, DominatesRoot
<1>9. PICK p \in Reachable(succ) : b \in SuccSet(succ, p) /\ Before(order, p, b)
  BY <1>1, <1>5, <1>8, PredBefore
<1>10. p = v[1]
  <2> SUFFICES ASSUME p # v[1] PROVE FALSE
    OBVIOUS
  <2>1. p \in EntersLive(v)
    BY <1>1, <1>2, <1>5, <1>9, EntersEarlier
  <2> QED
    BY <1>6, <1>9, <2>1
<1>11. v \in liveIn[b]
  <2> SUFFICES ASSUME v \notin liveIn[b] PROVE FALSE
    OBVIOUS
  <2>1. InLive(v, b)
    BY <1>5, EntersInLive
  <2>2. PICK l \in Found(loops, root) : b \in BodyOf(l) /\ b # loops[l].header /\ v \in liveIn[loops[l].header]
    BY <2>1 DEF InLive
  <2>3. PICK h : h = loops[l].header
    OBVIOUS
  <2>4. h \in Reachable(succ) /\ Dominates(succ, h, b)
    BY <2>2, <2>3, ScannedLoop
  <2>5. Before(order, h, b)
    BY <1>1, <1>2, <1>5, <2>2, <2>3, <2>4, DominatorBefore
  <2>6. h \in EntersLive(v)
    BY <1>1, <1>2, <2>2, <2>3, <2>4 DEF LiveSetsSound
  <2> QED
    BY <1>6, <2>5, <2>6
<1> QED
  BY <1>9, <1>10, <1>11 DEF LiveOut

\* The points at which a value has to be covered: where it enters a block live,
\* where it leaves one live, and where it is used.
EntryPoint(v, n) == \E b \in EntersLive(v) : b \in Reachable(succ) /\ n = range[b].start
ExitPoint(v, n)  == \E b \in LeavesLive(v) : /\ b \in Reachable(succ) /\ n = range[b].end
                                             /\ b \in EntersLive(v) \/ b = v[1]
UsePoint(v, n)   == \E b \in Reachable(succ) : \E u \in OwnInsts(b) : Uses(u, v) /\ n = NumberOf(u)

\* A value that is used in another block enters it live.
LEMMA UsedInUses ==
  ASSUME NEW v, NEW b \in UsedIn(v)
  PROVE  \E u \in OwnInsts(b) : Uses(u, v)
<1>1. PICK i \in DOMAIN code[b] : code[b][i].kind # "phi" /\ v \in Inputs(<<b, i>>)
  BY DEF UsedIn
<1>2. <<b, i>> \in OwnInsts(b) /\ Uses(<<b, i>>, v)
  BY <1>1 DEF OwnInsts, Uses, Kind, Inst
<1> QED
  BY <1>2

LEMMA UsesEnter ==
  ASSUME NEW v, NEW b \in Reachable(succ), b # v[1], NEW u \in OwnInsts(b), Uses(u, v)
  PROVE  b \in EntersLive(v)
<1>1. b \in Block
  BY ReachableFacts
<1>2. PICK i \in DOMAIN code[b] : u = <<b, i>>
  BY DEF OwnInsts
<1>3. code[b][i].kind # "phi" /\ v \in Inputs(<<b, i>>)
  BY <1>2 DEF Uses, Kind, Inst
<1>4. b \in UsedIn(v)
  BY <1>1, <1>3 DEF UsedIn
<1> QED
  BY <1>1, <1>4, UsedEnters

\* In its own block a value is used behind its definition.
LEMMA UsedLater ==
  ASSUME Defined, Numbered, NEW v \in Insts, v[1] \in Range(order), NEW u \in OwnInsts(v[1]), Uses(u, v)
  PROVE  NumberOf(v) <= NumberOf(u)
<1>1. PICK b \in Range(order) : b = v[1] /\ BlockNumbered(number, range, b)
  BY DEF Numbered
<1>2. PICK i, j : i = v[2] /\ j = u[2]
  OBVIOUS
<1>3. u[1] = b /\ j \in DOMAIN code[b] /\ b \in Block /\ i \in DOMAIN code[b]
  BY <1>1, <1>2, InstFacts DEF OwnInsts
<1>4. u \in Insts
  BY <1>1, <1>3 DEF OwnInsts, Insts
<1>5. i < j /\ i \in Nat /\ j \in Nat
  <2>1. DOMAIN code[b] \subseteq Nat
    BY <1>3, InstFacts
  <2> QED
    BY <1>1, <1>2, <1>3, <1>4, <2>1 DEF Defined, Uses
<1>6. number[b][i] <= number[b][j]
  BY <1>1, <1>3, <1>5 DEF BlockNumbered
<1> QED
  BY <1>1, <1>2, <1>3, <1>6 DEF NumberOf

\* A value starts before every point at which it has to be covered.
LEMMA StartsFirst ==
  ASSUME Scanned, NEW v \in Results, v[1] \in Reachable(succ),
         NEW n, EntryPoint(v, n) \/ ExitPoint(v, n) \/ UsePoint(v, n)
  PROVE  StartsIn(interval, v, NumberOf(v))
<1>1. succ \in Cfgs /\ interval \in Lives /\ BlockCovered(interval, liveIn, v[1])
  BY DEF Scanned
<1>2. v \in OwnInsts(v[1]) /\ v[1] \in Block /\ Kind(v) \in {"phi", "value"}
  BY InstFacts DEF Results, Scanned, OwnInsts
<1>3. CASE Kind(v) = "value"
  BY <1>1, <1>2, <1>3 DEF BlockCovered
<1>4. CASE Kind(v) = "phi"
  <2>1. LiveOut(liveIn, v, v[1]) \/ \E u \in OwnInsts(v[1]) : Uses(u, v)
    <3>1. CASE EntryPoint(v, n)
      BY <3>1, EntersFromOwn DEF EntryPoint
    <3>2. CASE ExitPoint(v, n)
      <4>1. PICK b \in LeavesLive(v) : b \in Reachable(succ) /\ (b \in EntersLive(v) \/ b = v[1])
        BY <3>2 DEF ExitPoint
      <4>2. CASE b \in EntersLive(v)
        BY <4>1, <4>2, EntersFromOwn
      <4>3. CASE b \in PhiFrom(v)
        BY <4>3, PhiLiveOut
      <4>4. CASE SuccSet(succ, b) \cap EntersLive(v) # {}
        <5>1. PICK c \in SuccSet(succ, b) : c \in EntersLive(v)
          BY <4>4
        <5>2. c \in Reachable(succ)
          BY <1>1, <4>1, ReachableStep
        <5> QED
          BY <5>1, <5>2, EntersFromOwn
      <4> QED
        BY <4>2, <4>3, <4>4 DEF LeavesLive
    <3>3. CASE UsePoint(v, n)
      <4>1. PICK b \in Reachable(succ) : \E u \in OwnInsts(b) : Uses(u, v)
        BY <3>3 DEF UsePoint
      <4>2. CASE b = v[1]
        BY <4>1, <4>2
      <4>3. CASE b # v[1]
        BY <4>1, <4>3, UsesEnter, EntersFromOwn
      <4> QED
        BY <4>2, <4>3
    <3> QED
      BY <3>1, <3>2, <3>3
  <2>2. StartsIn(interval, v, range[v[1]].start)
    BY <1>1, <1>4, <2>1 DEF BlockCovered
  <2>3. range[v[1]].start \in Nat /\ NumberOf(v) \in Nat /\ range[v[1]].start <= NumberOf(v)
    BY <1>2, RangeFacts
  <2> QED
    BY <1>1, <2>2, <2>3, LivesFacts DEF StartsIn
<1> QED
  BY <1>2, <1>3, <1>4

\* Every point at which a value has to be covered comes after its definition, and
\* before the end of its interval.
LEMMA PointCovered ==
  ASSUME Scanned, NEW v \in Results, v[1] \in Reachable(succ),
         NEW n, EntryPoint(v, n) \/ ExitPoint(v, n) \/ UsePoint(v, n)
  PROVE  n \in Nat /\ NumberOf(v) \in Nat /\ NumberOf(v) <= n /\ EndsIn(interval, v, n)
<1>1. succ \in Cfgs /\ Defined /\ Proper /\ Lists(order) /\ Forward(order) /\ interval \in Lives
  BY DEF Scanned
<1>2. v \in OwnInsts(v[1]) /\ v[1] \in Block /\ v \in Insts
  BY InstFacts DEF Results, Scanned, OwnInsts
<1>3. NumberOf(v) \in Nat /\ NumberOf(v) <= range[v[1]].end /\ range[v[1]].end \in Nat
  BY <1>2, RangeFacts
<1>4. ASSUME NEW b \in EntersLive(v), b \in Reachable(succ)
      PROVE  /\ range[b].start \in Nat /\ range[b].end \in Nat
             /\ range[b].start <= range[b].end /\ NumberOf(v) <= range[b].start
  <2>1. Dominates(succ, v[1], b) /\ v[1] # b
    BY <1>1, <1>2, <1>4, EntersDominated
  <2>2. Before(order, v[1], b)
    BY <1>1, <1>2, <1>4, <2>1, DominatorBefore
  <2>3. range[v[1]].end <= range[b].start /\ range[b].start \in Nat /\ range[b].end \in Nat /\ range[b].start <= range[b].end
    BY <1>4, <2>2, RangeFacts
  <2> QED
    BY <1>3, <2>3
<1>5. CASE EntryPoint(v, n)
  <2>1. PICK b \in EntersLive(v) : b \in Reachable(succ) /\ n = range[b].start
    BY <1>5 DEF EntryPoint
  <2>2. /\ range[b].start \in Nat /\ range[b].end \in Nat
        /\ range[b].start <= range[b].end /\ NumberOf(v) <= range[b].start
    BY <1>4, <2>1
  <2>3. CASE b \in UsedIn(v)
    <3>1. PICK u \in OwnInsts(b) : Uses(u, v)
      BY <2>3, UsedInUses
    <3>2. EndsIn(interval, v, NumberOf(u))
      BY <2>1, <3>1 DEF Scanned, BlockCovered
    <3>3. NumberOf(u) \in Nat /\ range[b].start <= NumberOf(u)
      BY <2>1, RangeFacts
    <3> QED
      BY <1>1, <1>3, <2>1, <2>2, <3>2, <3>3, EndsEarlier
  <2>4. CASE b \notin UsedIn(v)
    <3>1. b \in LeavesLive(v)
      <4>1. b \in Block /\ SuccSet(succ, b) \subseteq Block
        BY <1>1, SuccSeq DEF EntersLive
      <4>2. b \in PhiFrom(v) \/ \E c \in SuccSet(succ, b) : c \in EntersLive(v)
        BY <1>1, <2>4, EntersOn
      <4> QED
        BY <4>1, <4>2 DEF LeavesLive
    <3>2. EndsIn(interval, v, range[b].end)
      BY <2>1, <3>1, LeavesCovered
    <3> QED
      BY <1>1, <1>3, <2>1, <2>2, <3>2, EndsEarlier
  <2> QED
    BY <2>3, <2>4
<1>6. CASE ExitPoint(v, n)
  <2>1. PICK b \in LeavesLive(v) : b \in Reachable(succ) /\ n = range[b].end /\ (b \in EntersLive(v) \/ b = v[1])
    BY <1>6 DEF ExitPoint
  <2>2. EndsIn(interval, v, range[b].end)
    BY <2>1, LeavesCovered
  <2>3. CASE b = v[1]
    BY <1>3, <2>1, <2>2, <2>3
  <2>4. CASE b \in EntersLive(v)
    <3>1. /\ range[b].start \in Nat /\ range[b].end \in Nat
          /\ range[b].start <= range[b].end /\ NumberOf(v) <= range[b].start
      BY <1>4, <2>1, <2>4
    <3> QED
      BY <1>3, <2>1, <2>2, <3>1
  <2> QED
    BY <2>1, <2>3, <2>4
<1>7. CASE UsePoint(v, n)
  <2>1. PICK b \in Reachable(succ) : \E u \in OwnInsts(b) : Uses(u, v) /\ n = NumberOf(u)
    BY <1>7 DEF UsePoint
  <2>2. PICK u \in OwnInsts(b) : Uses(u, v) /\ n = NumberOf(u)
    BY <2>1
  <2>3. EndsIn(interval, v, NumberOf(u))
    BY <2>2 DEF Scanned, BlockCovered
  <2>4. NumberOf(u) \in Nat /\ range[b].start <= NumberOf(u)
    BY RangeFacts
  <2>5. CASE b = v[1]
    <3>1. NumberOf(v) <= NumberOf(u)
      BY <1>1, <1>2, <2>2, <2>5, UsedLater DEF Scanned, Lists
    <3> QED
      BY <1>3, <2>2, <2>3, <2>4, <3>1
  <2>6. CASE b # v[1]
    <3>1. b \in EntersLive(v)
      BY <2>2, <2>6, UsesEnter
    <3>2. NumberOf(v) <= range[b].start /\ range[b].start \in Nat
      BY <1>4, <3>1
    <3> QED
      BY <1>3, <2>2, <2>3, <2>4, <3>2
  <2> QED
    BY <2>5, <2>6
<1> QED
  BY <1>5, <1>6, <1>7

\* The interval of a value covers all points where it is live.
LEMMA ValueCovered ==
  ASSUME Scanned, Range(order) = Reachable(succ), NEW v \in Values
  PROVE  Covered(v)
<1>1. PICK enters, leaves, points :
        /\ enters = EntersLive(v) /\ leaves = LeavesLive(v) \cap (enters \cup {v[1]})
        /\ points = {range[b].start : b \in enters \cap Range(order)}
                      \cup {range[b].end : b \in leaves \cap Range(order)}
                      \cup UNION {UseNumbers(v, b) : b \in Range(order)}
  OBVIOUS
<1>2. v \in Results /\ v[1] \in Reachable(succ)
  BY DEF Values, Results
<1>3. ASSUME NEW n \in points PROVE EntryPoint(v, n) \/ ExitPoint(v, n) \/ UsePoint(v, n)
  <2>1. CASE n \in {range[b].start : b \in enters \cap Range(order)}
    BY <1>1, <2>1 DEF EntryPoint
  <2>2. CASE n \in {range[b].end : b \in leaves \cap Range(order)}
    BY <1>1, <2>2 DEF ExitPoint
  <2>3. CASE n \in UNION {UseNumbers(v, b) : b \in Range(order)}
    <3>1. PICK b \in Reachable(succ) : n \in UseNumbers(v, b)
      BY <2>3
    <3>2. PICK i \in DOMAIN code[b] : code[b][i].kind # "phi" /\ v \in Inputs(<<b, i>>) /\ n = number[b][i]
      BY <3>1 DEF UseNumbers
    <3>3. <<b, i>> \in OwnInsts(b) /\ Uses(<<b, i>>, v) /\ n = NumberOf(<<b, i>>)
      BY <3>2 DEF OwnInsts, Uses, Kind, Inst, NumberOf
    <3> QED
      BY <3>3 DEF UsePoint
  <2> QED
    BY <1>1, <1>3, <2>1, <2>2, <2>3
<1>4. ASSUME NEW n \in points
      PROVE  /\ n \in Nat /\ NumberOf(v) \in Nat /\ NumberOf(v) <= n
             /\ EndsIn(interval, v, n) /\ StartsIn(interval, v, NumberOf(v))
  BY <1>2, <1>3, PointCovered, StartsFirst
<1>5. interval \in Lives
  BY DEF Scanned
<1>6. ASSUME points # {}
      PROVE  /\ v \in DOMAIN interval
             /\ \A n \in points \cup {NumberOf(v)} : interval[v].start <= n /\ n <= interval[v].end
  <2>1. PICK m \in points : TRUE
    BY <1>6
  <2>2. v \in DOMAIN interval
    BY <1>4, <2>1 DEF EndsIn
  <2>3. PICK s \in Nat, e \in Nat : s = interval[v].start /\ e = interval[v].end
    BY <1>5, <2>2, LivesFacts
  <2>4. ASSUME NEW n \in points PROVE s <= NumberOf(v) /\ NumberOf(v) <= n /\ n <= e /\ n \in Nat /\ NumberOf(v) \in Nat
    BY <1>4, <2>3 DEF EndsIn, StartsIn
  <2>5. ASSUME NEW n \in points \cup {NumberOf(v)} PROVE s <= n /\ n <= e
    <3>1. s <= NumberOf(v) /\ NumberOf(v) <= m /\ m <= e /\ m \in Nat /\ NumberOf(v) \in Nat
      BY <2>1, <2>4
    <3>2. CASE n \in points
      BY <2>3, <2>4, <3>1, <3>2
    <3>3. CASE n = NumberOf(v)
      BY <2>3, <3>1, <3>3
    <3> QED
      BY <3>2, <3>3
  <2> QED
    BY <2>2, <2>3, <2>5
<1> QED
  BY <1>1, <1>6 DEF Covered, NumberOf

\* One backward pass is enough, in every graph and for every program: where the
\* loops are well structured, only back edges lead backwards in the order, no
\* block branches to itself, definitions dominate their uses and phis take what
\* the predecessor defines, the interval of every value covers all points where
\* it is live, so no register is given away while its value is still needed.
THEOREM IntervalsCover == LivenessSpec => []IntervalsCoverLiveness
<1>1. ScanInv /\ NestedInv /\ CoverInv => IntervalsCoverLiveness
  <2> SUFFICES ASSUME ScanInv, NestedInv, CoverInv, stage = "done", Structured, NoSelfEdges,
                      UsesDominated, PhiInputsLocal, ForwardLayout, NEW v \in Values
               PROVE  Covered(v)
    BY DEF IntervalsCoverLiveness
  <2>1. Scanned /\ Range(order) = Reachable(succ)
    BY DoneScanned
  <2> QED
    BY <2>1, ValueCovered
<1> QED
  BY <1>1, CoverInvariant, PTL
=============================================================================
