------------------------------ MODULE MCRewrite ------------------------------
(* Programs of a leaf, two constants, two operations, the second on the    *)
(* first, and an instruction that uses them, in one block, or with the     *)
(* leaf and the constants in the block before.                             *)
EXTENDS Rewrite

MCConstants == {<<0, -1>>, <<1, 2>>}

Inst(op, in) == [op |-> op, in |-> in, val |-> 0, bb |-> 1]
Const(c)     == [op |-> "CONSTANT", in |-> <<>>, val |-> c, bb |-> 1]
At(i, b)     == [i EXCEPT !.bb = b]

Arithmetic == {"ADD", "SUB", "XOR", "SHL", "SHR"}

Firsts  == {Inst(op, <<x, y>>) : op \in Arithmetic, x \in 1 .. 3, y \in 1 .. 3}
Seconds == {i \in {Inst(op, <<x, y>>) : op \in Arithmetic \ {"SHL"}, x \in 1 .. 4, y \in 1 .. 4} :
              4 \in Range(i.in)}
Lasts   == {Inst(op, <<x>>) : op \in {"RET", "CALL"}, x \in 4 .. 5}
             \cup {i \in {Inst("ADD", <<x, y>>) : x \in 1 .. 5, y \in 1 .. 5} : 5 \in Range(i.in)}
             \cup {Inst("SUB", <<5, 5>>)}

MCPrograms == {<<Inst("LEAF", <<>>), Const(c[1]), Const(c[2]), At(f, b), At(s, b), At(l, b)>> :
                 b \in 1 .. 2, c \in MCConstants, f \in Firsts, s \in Seconds, l \in Lasts}
=============================================================================
