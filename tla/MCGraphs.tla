------------------------------ MODULE MCGraphs ------------------------------
(* Sets of graphs for the runs.  In SortedCfgs the blocks list their       *)
(* successors in ascending order: a visit can still meet the blocks in any *)
(* order, since their numbers can be anything.  In BranchCfgs the entry    *)
(* branches to blocks 2 and 3 and is not entered again.                    *)
EXTENDS ControlFlow

SortedLists == {s \in SuccLists : Len(s) = 2 => s[1] < s[2]}
InnerLists  == {s \in SortedLists : \A k \in DOMAIN s : s[k] # Root}

SortedCfgs == [Block -> SortedLists]
BranchCfgs == {[b \in Block |-> IF b = Root THEN <<2, 3>> ELSE inner[b]] :
                 inner \in [Block \ {Root} -> InnerLists]}
=============================================================================
