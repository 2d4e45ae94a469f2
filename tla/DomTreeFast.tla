----------------------------- MODULE DomTreeFast -----------------------------
(***************************************************************************)
(* The fast dominator analysis (pass/dom_tree_fast.cpp): the algorithm of  *)
(* Lengauer and Tarjan with path compression.  A HelperNode is identified  *)
(* with its block; the blocks in preorder are order, so that the dfs       *)
(* number of a node is its place there.  The steps are the iterations of   *)
(* the loops: one successor looked at by the preorder visit, one           *)
(* predecessor in step 2, one bucket entry in step 3, one node in step 4.  *)
(*                                                                         *)
(* Two places have undefined behaviour.  A predecessor that the preorder   *)
(* did not reach has no HelperNode, and eval follows a null pointer: the   *)
(* program crashes.  Step 3 removes an entry from its bucket, which frees  *)
(* the list node, and goes on reading it; nothing is allocated before the  *)
(* last read, so the entry is still there and the model reads it.          *)
(***************************************************************************)
EXTENDS ControlFlow, SequencesExt, FiniteSets

VARIABLES
  succ,       \* the successor lists, fixed
  order,      \* result_vector: the nodes in preorder
  stack,      \* the active calls of PreOrderVisitor, innermost last
  parent,     \* parent_, ancestor_, label_ and dom_ of every node, or Null
  ancestor,
  label,
  dom,
  sdom,       \* sdom_dfs_num_ of every node
  bucket,     \* bucket, by dfs number
  at,         \* the index in order of the node the loops are at
  preds,      \* the predecessors that step 2 has not looked at
  idom,       \* idom_ of every block
  pc          \* "start", "preorder", "semi", "implicit", "explicit",
              \* "done" or "crash"; "used" in CheckElimination

vars == <<succ, order, stack, parent, ancestor, label, dom, sdom, bucket, at, preds,
          idom, pc>>
forest == <<ancestor, label>>

Null == 0
Node == Range(order)
Dfs(b) == CHOOSE i \in DOMAIN order : order[i] = b

Init == /\ succ \in Cfgs
        /\ order = <<>>
        /\ stack = <<>>
        /\ parent = [b \in Block |-> Null]
        /\ ancestor = [b \in Block |-> Null]
        /\ label = [b \in Block |-> b]
        /\ dom = [b \in Block |-> Null]
        /\ sdom = [b \in Block |-> 0]
        /\ bucket = [n \in 1 .. N |-> <<>>]
        /\ at = 0
        /\ preds = <<>>
        /\ idom = [b \in Block |-> Null]
        /\ pc = "start"

-----------------------------------------------------------------------------
(***************************************************************************)
(* Step 1, GetPreOrder and PreOrderVisitor.                                *)
(***************************************************************************)
\* A new HelperNode with the next dfs number.
NewNode(b, p) == /\ order' = Append(order, b)
                 /\ sdom' = [sdom EXCEPT ![b] = Len(order) + 1]
                 /\ parent' = [parent EXCEPT ![b] = p]

Call(b) == [block |-> b, rest |-> succ[b]]
Top     == stack[Len(stack)]
Next1   == Head(Top.rest)
Popped  == SubSeq(stack, 1, Len(stack) - 1)
Advanced == Append(Popped, [Top EXCEPT !.rest = Tail(@)])

Start == /\ pc = "start"
         /\ NewNode(Root, Null)
         /\ stack' = <<Call(Root)>>
         /\ pc' = "preorder"
         /\ UNCHANGED <<succ, forest, dom, bucket, at, preds, idom>>

\* Fault variant: a block is entered only along the first edge of the other.
FirstEdgeOnly(b) == b \notin Node /\ b = Head(succ[Top.block])

\* The block is not marked yet.
Unseen(b) == b \notin Node

Skip == /\ pc = "preorder" /\ stack # <<>> /\ Top.rest # <<>>
        /\ ~Unseen(Next1)
        /\ stack' = Advanced
        /\ UNCHANGED <<succ, order, parent, forest, dom, sdom, bucket, at, preds, idom, pc>>

Enter == /\ pc = "preorder" /\ stack # <<>> /\ Top.rest # <<>>
         /\ Unseen(Next1)
         /\ NewNode(Next1, Top.block)
         /\ stack' = Append(Advanced, Call(Next1))
         /\ UNCHANGED <<succ, forest, dom, bucket, at, preds, idom, pc>>

Return == /\ pc = "preorder" /\ stack # <<>> /\ Top.rest = <<>>
          /\ stack' = Popped
          /\ UNCHANGED <<succ, order, parent, forest, dom, sdom, bucket, at, preds, idom, pc>>

\* The loop of steps 2 and 3 goes down from the last node to the second.
GoTo(i) == /\ at' = i
           /\ preds' = IF i > 1 THEN Preds(succ, order[i]) ELSE <<>>
           /\ pc' = IF i > 1 THEN "semi" ELSE "explicit"

Numbered == /\ pc = "preorder" /\ stack = <<>>
            /\ GoTo(Len(order))
            /\ UNCHANGED <<succ, order, stack, parent, forest, dom, sdom, bucket, idom>>

-----------------------------------------------------------------------------
(***************************************************************************)
(* eval and compress.                                                      *)
(***************************************************************************)
\* A node whose ancestor is a root of the forest is not compressed.
AtTop(b) == ancestor[b] = Null \/ ancestor[ancestor[b]] = Null

\* The nodes that compress(b) visits, the root of the tree and the label it
\* leaves in b.
Path == LET path[b \in Block] == IF AtTop(b) THEN {b} ELSE {b} \cup path[ancestor[b]]
        IN  path
TreeRoot == LET root[b \in Block] == IF AtTop(b) THEN ancestor[b] ELSE root[ancestor[b]]
            IN  root

\* Fault variant: the labels further up are not looked at.
OwnLabel(above, own) == own

Better(above, own) == IF sdom[above] < sdom[own] THEN above ELSE own

Label == LET lbl[b \in Block] == IF AtTop(b) THEN label[b]
                                 ELSE Better(lbl[ancestor[b]], label[b])
         IN  lbl

\* What eval(b) returns.
Evaluated(b) == IF ancestor[b] = Null THEN b ELSE Label[b]

\* Fault variant: a node takes its new ancestor before it compares labels.
ShortcutFirst(b) ==
  LET lower == {c \in Path[b] : ~AtTop(c)}
  IN  /\ ancestor' = [c \in Block |-> IF c \in lower THEN TreeRoot[c] ELSE ancestor[c]]
      /\ label' = [c \in Block |-> IF c \in lower THEN Better(label[TreeRoot[c]], label[c])
                                                  ELSE label[c]]

\* What compress does to the forest.
Compress(b) == /\ ancestor' = [c \in Block |-> IF c \in Path[b] THEN TreeRoot[c] ELSE ancestor[c]]
               /\ label' = [c \in Block |-> IF c \in Path[b] THEN Label[c] ELSE label[c]]

-----------------------------------------------------------------------------
(***************************************************************************)
(* Steps 2 to 4.                                                           *)
(***************************************************************************)
w == order[at]

\* Step 2, one predecessor.
Semi == /\ pc = "semi" /\ preds # <<>>
        /\ Head(preds) \in Node
        /\ Compress(Head(preds))
        /\ LET u == Evaluated(Head(preds))
           IN  sdom' = IF sdom[u] < sdom[w] THEN [sdom EXCEPT ![w] = sdom[u]] ELSE sdom
        /\ preds' = Tail(preds)
        /\ UNCHANGED <<succ, order, stack, parent, dom, bucket, at, idom, pc>>

\* Step 2, bb_to_dfs_num has no entry for the predecessor.
Crash == /\ pc = "semi" /\ preds # <<>>
         /\ Head(preds) \notin Node
         /\ pc' = "crash"
         /\ UNCHANGED <<succ, order, stack, parent, forest, dom, sdom, bucket, at, preds, idom>>

\* The end of step 2: w waits in the bucket of its semidominator and is linked.
Link == /\ pc = "semi" /\ preds = <<>>
        /\ bucket' = [bucket EXCEPT ![sdom[w]] = Append(@, w)]
        /\ ancestor' = [ancestor EXCEPT ![w] = parent[w]]
        /\ pc' = "implicit"
        /\ UNCHANGED <<succ, order, stack, parent, label, dom, sdom, at, preds, idom>>

\* Fault variant: the dominator is never deferred.
ParentAlways(u, v) == parent[w]

\* The dominator that step 3 records: a node with the same dominator, or
\* the semidominator itself.
Implicit(u, v) == IF sdom[u] < sdom[v] THEN u ELSE parent[w]

Waiting == bucket[Dfs(parent[w])]

\* Step 3, one entry of the bucket of the parent.
FromBucket ==
  /\ pc = "implicit" /\ Waiting # <<>>
  /\ LET v == Head(Waiting)
     IN  /\ Compress(v)
         /\ dom' = [dom EXCEPT ![v] = Implicit(Evaluated(v), v)]
         /\ bucket' = [bucket EXCEPT ![Dfs(parent[w])] = Tail(@)]
  /\ UNCHANGED <<succ, order, stack, parent, sdom, at, preds, idom, pc>>

NextNode == /\ pc = "implicit" /\ Waiting = <<>>
            /\ IF at > 2 THEN GoTo(at - 1)
               ELSE at' = 2 /\ pc' = "explicit" /\ UNCHANGED preds
            /\ UNCHANGED <<succ, order, stack, parent, forest, dom, sdom, bucket, idom>>

\* Step 4, one node.
Explicit == /\ pc = "explicit" /\ at \in 2 .. Len(order)
            /\ dom' = IF Dfs(dom[w]) # sdom[w] THEN [dom EXCEPT ![w] = dom[dom[w]]] ELSE dom
            /\ at' = at + 1
            /\ UNCHANGED <<succ, order, stack, parent, forest, sdom, bucket, preds, idom, pc>>

\* SetIDom for every node but the entry.
Assign == /\ pc = "explicit" /\ at \notin 2 .. Len(order)
          /\ idom' = [b \in Block |-> IF b \in Node \ {Root} THEN dom[b] ELSE idom[b]]
          /\ pc' = "done"
          /\ UNCHANGED <<succ, order, stack, parent, forest, dom, sdom, bucket, at, preds>>

Terminated == pc \in {"done", "crash"} /\ UNCHANGED vars

Next == \/ Start \/ Skip \/ Enter \/ Return \/ Numbered \/ Semi \/ Crash
        \/ Link \/ FromBucket \/ NextNode \/ Explicit \/ Assign \/ Terminated
Spec == Init /\ [][Next]_vars

-----------------------------------------------------------------------------
\* Graph::CheckDominance: d is on the chain of immediate dominators of b.
Chain == LET chain[b \in Block] == IF idom[b] = Null THEN {} ELSE {idom[b]} \cup chain[idom[b]]
         IN  chain
CheckDominance(d, b) == d \in Chain[b]

\* The reference definition of the semidominator of b: the least number of a
\* node that reaches b through nodes numbered above b.
Semidominator(b) ==
  LET above == {c \in Node : Dfs(c) > Dfs(b)}
      ends  == {v \in Node : b \in ReachFrom(succ, above \cup {v, b}, v)}
  IN  CHOOSE n \in {Dfs(v) : v \in ends} : \A v \in ends : n <= Dfs(v)

\* Step 2 finds the semidominator of every node, though it looks only at the
\* labels that path compression has left in the forest.
SemidominatorsExact ==
  pc = "explicit" /\ at = 2 => \A b \in Node \ {Root} : sdom[b] = Semidominator(b)

\* The tree path from b up to the last linked node.
LinkedPath ==
  LET path[b \in Block] == IF ancestor[b] = Null THEN {} ELSE {b} \cup path[parent[b]]
  IN  path

\* At every moment, with the forest compressed in whatever way the calls so
\* far have left it, eval(b) would return a node of least semidominator
\* number among the linked tree ancestors of b.
EvalFindsMinimum ==
  pc \in {"semi", "implicit"} =>
    \A b \in Node : ancestor[b] # Null =>
      /\ Evaluated(b) \in LinkedPath[b]
      /\ \A c \in LinkedPath[b] : sdom[Evaluated(b)] <= sdom[c]

\* The walk of CheckDominance answers strict dominance, which is what
\* LoopAnalyzer and CheckElimination build on.
QueryIsStrictDominance ==
  pc = "done" =>
    \A b \in Reachable(succ) : {d \in Block : CheckDominance(d, b)} = StrictDominators(succ, b)

\* A crash needs an edge from an unreachable block into the reachable part,
\* and with such an edge the analysis never returns.
CrashMeansDeadPredecessor ==
  pc \in {"crash", "done"} =>
  LET deadEdge == \E b \in Reachable(succ), c \in Block \ Reachable(succ) :
                    b # Root /\ b \in SuccSet(succ, c)
  IN  pc = "crash" <=> deadEdge
=============================================================================
