---------------------------- MODULE MCLinearOrder ----------------------------
(* The loops and the layout of every connected graph in which the entry    *)
(* lists its successors in ascending order.  No block is empty and every   *)
(* block with one successor ends with JMP; MCLiveness has other blocks.    *)
EXTENDS LinearOrder, MCGraphs

FullInit == /\ succ \in Cfgs
            /\ succ[Root] \in SortedLists
            /\ Reachable(succ) = Block
            /\ loops = <<>> /\ todo = <<>> /\ root = Null /\ pc = "collect"
            /\ loop = [b \in Block |-> Null]
            /\ ends = [b \in Block |-> CASE Len(succ[b]) = 2 -> "cond"
                                         [] Len(succ[b]) = 1 -> "jmp"
                                         [] OTHER -> "other"]
            /\ LayoutInit
FullSpec == FullInit /\ [][LinearNext]_allVars
=============================================================================
