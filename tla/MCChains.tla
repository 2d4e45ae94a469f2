------------------------------ MODULE MCChains ------------------------------
(* Chains of blocks for the runs: a block branches back to any earlier     *)
(* block, or skips the next block, or just goes on.                        *)
EXTENDS ControlFlow

Targets(b, n) == {<<b + 1>>} \cup {<<h, b + 1>> : h \in 1 .. b}
                             \cup {<<b + 1, c>> : c \in {b + 2} \cap (1 .. n)}

\* The chains of the blocks from b to n.
RECURSIVE Chains(_, _)
Chains(b, n) == IF b = n THEN {<< <<>> >>}
                ELSE {<<t>> \o rest : t \in Targets(b, n), rest \in Chains(b + 1, n)}
=============================================================================
