--------------------------- MODULE MCLoopAnalyzer ---------------------------
(* The analysis of the graphs of MCGraphs on which DomTreeFast returns.    *)
EXTENDS LoopAnalyzer, MCGraphs

Unstarted == /\ NoDeadEdges(succ)
             /\ loops = <<>> /\ todo = <<>> /\ root = Null /\ pc = "collect"
             /\ loop = [b \in Block |-> Null]

SortedSpec == succ \in SortedCfgs /\ Unstarted /\ [][Next]_vars
=============================================================================
