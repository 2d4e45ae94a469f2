---------------------------- MODULE MCDomTreeSlow ----------------------------
(* A client runs DomTreeSlow, then RPO again, on every graph of a few      *)
(* blocks, late in the life of the graph, so that some of the analyses run *)
(* out of epochs; on three graphs it runs all the passes in any order, and *)
(* Inlining before and after others on the graphs of one and two blocks.   *)
EXTENDS Passes, MCGraphs

\* A diamond, two nested loops, and two loops one after the other.
Shared == {<<<<2, 3>>, <<4>>, <<4>>, <<>>>>, <<<<2>>, <<3>>, <<2, 4>>, <<2>>>>,
           <<<<2>>, <<3>>, <<2, 4>>, <<3>>>>}

LifeInit == /\ \/ /\ size = N /\ sites = {}
                  /\ succ \in SortedCfgs
                  /\ wanted = {"RPO", "DomTreeSlow"}
                  /\ epoch \in MAX_EPOCH - N - 1 .. MAX_EPOCH - N
               \/ /\ size = N /\ sites = {}
                  /\ succ \in Shared
                  /\ wanted = PassList \ {"Inlining"}
                  /\ epoch \in {0, 1, 4, 8}
               \/ /\ size \in 1 .. 2 /\ sites \in {{b} : b \in 1 .. size}
                  /\ succ \in SortedCfgs
                  /\ wanted = {"RPO", "DomTreeSlow", "DomTreeFast", "LinearOrder", "ConstFolding", "Inlining"}
                  /\ epoch \in {0, MAX_EPOCH - 2 * N}
            /\ rpoValid = FALSE
            /\ Init /\ PassInit
LifeSpec == LifeInit /\ [][PassNext]_<<vars, passVars>>
=============================================================================
