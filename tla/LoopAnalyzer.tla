---------------------------- MODULE LoopAnalyzer ----------------------------
(***************************************************************************)
(* The loop analysis (pass/loop_analyzer.cpp): a visit along the edges     *)
(* finds the back edges and creates one Loop for each, PopulateLoops       *)
(* collects the blocks of the loops from the innermost outwards, and       *)
(* BuildLoopTree hangs the rest under a root loop.  The steps are the      *)
(* visit, one block of PopulateLoops and one block of BuildLoopTree.       *)
(*                                                                         *)
(* Loops are numbered in the order they are created; 0 stands for a null   *)
(* pointer and loop 1 of the result is the first one, not the root.  The   *)
(* immediate dominators are those of DomTreeFast, whose run shows that     *)
(* CheckDominance answers strict dominance and that the analysis returns   *)
(* only if no edge leads from an unreachable block into the others.        *)
(***************************************************************************)
EXTENDS Orders, Functions, FiniteSets

VARIABLES
  succ,       \* the successor lists, fixed
  loops,      \* the Loop objects, in the order of their creation
  loop,       \* loop_ of every block, an index in loops or Null
  todo,       \* the blocks that the current phase has not reached
  root,       \* the index of the root loop, or Null
  pc          \* "collect", "populate", "tree" or "done"; "layout" in LinearOrder

vars == <<succ, loops, loop, todo, root, pc>>

Null == 0

NewLoop(source, header) ==
  [source |-> source, header |-> header, blocks |-> <<>>, inner |-> <<>>, outer |-> Null]

NoDeadEdges(s) == \A c \in Block \ Reachable(s) : SuccSet(s, c) \cap Reachable(s) = {}

Init == /\ succ \in Cfgs
        /\ NoDeadEdges(succ)
        /\ loops = <<>>
        /\ loop = [b \in Block |-> Null]
        /\ todo = <<>>
        /\ root = Null
        /\ pc = "collect"

-----------------------------------------------------------------------------
\* Graph::CheckDominance
CheckDominance(d, b) == d \in StrictDominators(succ, b)

\* The loop about to be created.
Newest(s) == Len(s.loops) + 1

Loop == [source : Block \cup {Null}, header : Block \cup {Null},
         blocks : Seq(Block), inner : Seq(Nat), outer : Nat]

\* The state of the visit: the marks, the loops and loop_.
EdgeState == [black : SUBSET Block, gray : SUBSET Block, loops : Seq(Loop), loop : [Block -> Nat]]

\* The edge from prev leads to a block whose call is active.
CloseLoop(s, curr, prev) ==
  IF ~CheckDominance(curr, prev) THEN s
  ELSE [s EXCEPT !.loops = Append(@, NewLoop(prev, curr)),
                 !.loop  = [@ EXCEPT ![curr] = Newest(s), ![prev] = Newest(s)]]

\* A call of ProccessEdge; visit is what the calls that it makes do.
Follow(visit, s, curr, prev) ==
  IF curr \in s.gray THEN CloseLoop(s, curr, prev)
  ELSE IF curr \in s.black THEN s
  ELSE [EachOf(visit[curr], succ[curr], [s EXCEPT !.black = @ \cup {curr}, !.gray = @ \cup {curr}])
          EXCEPT !.gray = @ \ {curr}]

\* ProccessEdge; edge[n] is a call that others may nest in n deep.  A call that
\* makes others marks a block, and the last of them only look at the marks.
ProccessEdge ==
  LET edge[n \in 0 .. N + 1] ==
        IF n = 0 THEN [prev \in Block \cup {Null} |-> [s \in EdgeState |-> [curr \in Block |-> s]]]
        ELSE [prev \in Block \cup {Null} |-> [s \in EdgeState |-> [curr \in Block |->
                Follow(edge[n - 1], s, curr, prev)]]]
  IN  edge[N + 1]

\* PopulateLoops goes through the reverse post-order backwards.
FromInnermost == PostOrder(succ)

\* CollectBackEdges, and RPO for the next phase.
CollectBackEdges ==
  /\ pc = "collect"
  /\ LET s == ProccessEdge[Null][[black |-> {}, gray |-> {}, loops |-> loops, loop |-> loop]][Root]
     IN  loops' = s.loops /\ loop' = s.loop
  /\ todo' = FromInnermost
  /\ pc' = "populate"
  /\ UNCHANGED <<succ, root>>

-----------------------------------------------------------------------------
IsLoopHeader(b) == loop[b] # Null /\ loops[loop[b]].header = b

\* Fault variant: a loop that has an outer loop is taken as well.
AdoptsAny(s, m) == m # Null

\* Fault variant: only a loop that has an outer loop is taken.
AdoptsOwned(s, m) == m # Null /\ s.loops[m].outer # Null

\* The loop of a block is hung under the loop being populated.
Adopts(s, m) == m # Null /\ s.loops[m].outer = Null

\* The state of the search: the mark, the loops and loop_.
SearchState == [black : SUBSET Block, loops : Seq(Loop), loop : [Block -> Nat]]

\* The search for the blocks of loop l marks b and takes it.
Take(s, l, b) ==
  LET m      == s.loop[b]
      pushed == [s.loops EXCEPT ![l].blocks = Append(@, b)]
  IN  [black |-> s.black \cup {b},
       loops |-> IF Adopts(s, m)
                 THEN [pushed EXCEPT ![l].inner = Append(@, m), ![m].outer = l]
                 ELSE pushed,
       loop  |-> IF m = Null THEN [s.loop EXCEPT ![b] = l] ELSE s.loop]

\* A call of LoopSearch; search is what the calls that it makes do.
SearchFrom(search, l, s, b) ==
  IF b \in s.black THEN s ELSE EachOf(search, Preds(succ, b), Take(s, l, b))

\* LoopSearch; search[n] is a call that others may nest in n deep.  A call that
\* goes on marks a block, so N is deep enough.
LoopSearch(l) ==
  LET search[n \in 0 .. N] ==
        IF n = 0 THEN [s \in SearchState |-> [b \in Block |-> s]]
        ELSE [s \in SearchState |-> [b \in Block |-> SearchFrom(search[n - 1], l, s, b)]]
  IN  search[N]

\* Fault variant: the header does not stop the search.
MarkSourceOnly(l) == {loops[l].source}

\* The blocks marked before the search.
MarkedFirst(l) == {loops[l].header, loops[l].source}

\* PopulateLoops at the header of a loop.
Populate(b) ==
  LET l      == loop[b]
      source == loops[l].source
      start  == [black |-> MarkedFirst(l),
                 loops |-> [loops EXCEPT ![l].blocks = Append(@, source)],
                 loop  |-> loop]
      found  == EachOf(LoopSearch(l), Preds(succ, source), start)
  IN  /\ loops' = [found.loops EXCEPT ![l].blocks = Append(@, b)]
      /\ loop' = found.loop

\* One block of PopulateLoops.
PopulateLoops ==
  /\ pc = "populate" /\ todo # <<>>
  /\ IF IsLoopHeader(Head(todo)) THEN Populate(Head(todo)) ELSE UNCHANGED <<loops, loop>>
  /\ todo' = Tail(todo)
  /\ UNCHANGED <<succ, root, pc>>

-----------------------------------------------------------------------------
\* BuildLoopTree creates the root loop and goes through basic_blocks_.
NewRoot == /\ pc = "populate" /\ todo = <<>>
           /\ loops' = Append(loops, NewLoop(Null, Null))
           /\ root' = Len(loops) + 1
           /\ todo' = [i \in 1 .. N |-> i]
           /\ pc' = "tree"
           /\ UNCHANGED <<succ, loop>>

\* The loops that come under the root together with l: those of its blocks.
TopLoops(l) == {l} \cup {m \in {loop[b] : b \in Range(loops[l].blocks)} : loops[m].outer = Null}

\* One block of BuildLoopTree.
BuildLoopTree ==
  /\ pc = "tree" /\ todo # <<>>
  /\ LET b == Head(todo)
         l == loop[b]
     IN  loops' = IF l = Null
                  THEN [loops EXCEPT ![root].blocks = Append(@, b)]
                  ELSE IF loops[l].outer = Null
                  THEN [m \in DOMAIN loops |->
                          IF m = root THEN [loops[m] EXCEPT !.inner = Append(@, l)]
                          ELSE IF m \in TopLoops(l) THEN [loops[m] EXCEPT !.outer = root]
                          ELSE loops[m]]
                  ELSE loops
  /\ todo' = Tail(todo)
  /\ UNCHANGED <<succ, loop, root, pc>>

SetRootLoop == /\ pc = "tree" /\ todo = <<>>
               /\ pc' = "done"
               /\ UNCHANGED <<succ, loops, loop, todo, root>>

Terminated == pc = "done" /\ UNCHANGED vars

Next == CollectBackEdges \/ PopulateLoops \/ NewRoot \/ BuildLoopTree \/ SetRootLoop \/ Terminated
Spec == Init /\ [][Next]_vars

-----------------------------------------------------------------------------
\* The loops whose blocks were collected.
Bodies    == {l \in DOMAIN loops : l # root /\ loops[l].blocks # <<>>}
BodyOf(l) == Range(loops[l].blocks)

\* The back edges of the graph; an edge from a block to itself is not one for
\* CheckDominance.
BackEdges == {e \in Reachable(succ) \X Reachable(succ) :
                e[2] \in SuccSet(succ, e[1]) /\ CheckDominance(e[2], e[1])}
NaturalLoops == {[source |-> e[1], header |-> e[2], body |-> NaturalLoop(succ, e[1], e[2])] :
                   e \in BackEdges}

\* Every header has one back edge, which starts in no inner loop.
Structured ==
  LET natural == NaturalLoops
  IN  \A e, f \in natural : e # f =>
        e.header # f.header /\ (e.source \in f.body => e.body \subseteq f.body)

\* The blocks collected for a loop are its natural loop, each of them once,
\* the source of the back edge first and the header last: LinearOrder relies
\* on that order.  It holds of every graph, reducible or not.
BodiesNatural ==
  pc = "tree" /\ Len(todo) = N => \A l \in Bodies :
    /\ BodyOf(l) = NaturalLoop(succ, loops[l].source, loops[l].header)
    /\ IsInjective(loops[l].blocks)
    /\ Head(loops[l].blocks) = loops[l].source /\ Last(loops[l].blocks) = loops[l].header

\* No loop is listed twice among the inner loops of the others, so ~Loop
\* deletes none of them twice, and outer_ of a listed loop names its owner.
OwnedOnce ==
  pc = "done" =>
    /\ \A l \in DOMAIN loops : IsInjective(loops[l].inner)
    /\ \A l, m \in DOMAIN loops : l \in Range(loops[m].inner) => loops[l].outer = m

\* The loop tree of a graph is the inclusion of its natural loops: loops
\* hang under the least loop around them, the outermost ones under the root,
\* and every block knows the innermost loop that holds it.
TreeIsInclusion ==
  LET around(l) == {m \in Bodies \ {l} : BodyOf(l) \subseteq BodyOf(m)}
      holding(b) == {m \in Bodies : b \in BodyOf(m)}
      least(S) == IF S = {} THEN root
                  ELSE CHOOSE m \in S : \A k \in S : BodyOf(m) \subseteq BodyOf(k)
  IN  /\ \A l \in Bodies : loops[l].outer = least(around(l)) /\ l \in Range(loops[loops[l].outer].inner)
      /\ \A b \in Block : loop[b] = IF holding(b) = {} THEN Null ELSE least(holding(b))
      /\ Range(loops[root].blocks) = {b \in Block : holding(b) = {}}

\* In graphs with one back edge per header that starts in no inner loop, the
\* loops are those of the back edges and the tree is right.
StructuredTree ==
  pc = "done" =>
    \/ /\ TreeIsInclusion
       /\ {<<loops[l].source, loops[l].header>> : l \in Bodies} = BackEdges
    \/ ~Structured

\* What the loop tests expect of the graphs they build, in which no header has
\* two back edges: a loop hangs under the loop that contains it, and what has
\* no loop around it under the root.
LoopsHangTogether ==
  LET natural == NaturalLoops
  IN  pc = "done" /\ (\A e, f \in natural : e.header = f.header => e = f) => TreeIsInclusion
=============================================================================
