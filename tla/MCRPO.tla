-------------------------------- MODULE MCRPO --------------------------------
(* The graphs of MCGraphs, complete or with one block unbound.             *)
EXTENDS RPO, MCGraphs

SortedInit == succ \in SortedCfgs /\ Init
SortedSpec == SortedInit /\ [][Next]_vars /\ WF_vars(Step)
=============================================================================
