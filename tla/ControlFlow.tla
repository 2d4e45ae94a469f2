----------------------------- MODULE ControlFlow -----------------------------
(***************************************************************************)
(* Control flow graphs as IrBuilder::GraphBuilder makes them, and what     *)
(* reachability, dominance and natural loops mean on them.  The blocks are *)
(* numbered in the order of basic_blocks_, whose first element is the      *)
(* entry.  A graph is given by the successor list of every block; a block  *)
(* has at most two successors, the first one taken when the branch is.     *)
(***************************************************************************)
EXTENDS Integers, Sequences

CONSTANT N       \* the number of blocks

ASSUME SizeAssumption == N \in Nat \ {0}

Block == 1 .. N
Root  == 1

SuccLists == {<<>>} \cup {<<a>> : a \in Block}
                    \cup {<<a, b>> : a, b \in Block}

\* The successors of one block, as a set.
SuccSet(succ, b) == {succ[b][k] : k \in DOMAIN succ[b]}

\* Every block at most once among the successors of a block.
NoParallelEdges(succ) ==
  \A b \in Block : \A j, k \in DOMAIN succ[b] : succ[b][j] = succ[b][k] => j = k

Cfgs == {succ \in [Block -> SuccLists] : NoParallelEdges(succ)}

\* The predecessor list: GraphBuilder adds them in the order of the blocks.
Preds(succ, b) ==
  LET from[c \in 0 .. N] ==
        IF c = 0 THEN <<>>
        ELSE IF b \in SuccSet(succ, c) THEN Append(from[c - 1], c) ELSE from[c - 1]
  IN  from[N]

\* S and the blocks of P that an edge from S leads to.
Onward(succ, P, S) == S \cup {b \in Block : b \in P /\ \E a \in S : b \in SuccSet(succ, a)}

\* The blocks reached from a block through blocks of P; within[n] are those
\* that a path of at most n edges leads to.
ReachFrom(succ, P, from) ==
  LET within[n \in 0 .. N] == IF n = 0 THEN {from} ELSE Onward(succ, P, within[n - 1])
  IN  within[N]

Reach(succ, P) == ReachFrom(succ, P, Root)

Reachable(succ) == Reach(succ, Block)

\* d dominates b: every path from the entry to b goes through d.
Dominates(succ, d, b) ==
  b = d \/ d = Root \/ b \notin Reach(succ, Block \ {d})

StrictDominators(succ, b) ==
  {d \in Reachable(succ) \ {b} : Dominates(succ, d, b)}

\* The strict dominator that all the others dominate.
ImmediateDominator(succ, b) ==
  CHOOSE d \in StrictDominators(succ, b) :
    \A c \in StrictDominators(succ, b) : Dominates(succ, c, d)

\* The natural loop of the back edge from source to header: the blocks that
\* reach source without passing through header, and header.
NaturalLoop(succ, source, header) ==
  {header} \cup
  {b \in Reachable(succ) \ {header} :
     source \in ReachFrom(succ, Block \ {header}, b)}
=============================================================================
