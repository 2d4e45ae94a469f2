----------------------------- MODULE MCInlining -----------------------------
(* Callers and callees for the run.  A part is a graph whose instructions  *)
(* and blocks are numbered from 1; a program is one or two callees and the *)
(* caller after them, as in the tests.                                     *)
EXTENDS Inlining

Do(b, op, in)        == [op |-> op, in |-> in, from |-> <<>>, bb |-> b, callee |-> Null]
Phi(b, in, from)     == [op |-> "PHI", in |-> in, from |-> from, bb |-> b, callee |-> Null]
Call(b, g, in)       == [op |-> "CALL_STATIC", in |-> in, from |-> <<>>, bb |-> b, callee |-> g]
Part(insts, succs)   == [insts |-> insts, succs |-> succs]

Jump(b) == Do(b, "JMP_EQ", <<>>)

\* Callees with parameters 1 and 2 and the constant 3.
Head3(b) == <<Do(1, "PARAMETER", <<>>), Do(1, "PARAMETER", <<>>), Do(1, "CONSTANT", <<>>)>>

\* One block: an operation and what is returned.
Straight == {Part(Head3(1) \o <<Do(1, "ADD", in), end>>, << <<>> >>) :
               in \in {<<1, 2>>, <<2, 1>>, <<1, 1>>, <<1, 3>>},
               end \in {Do(1, "RET", <<v>>) : v \in 1 .. 4}
                         \cup {Do(1, "RET_VOID", <<>>), Do(1, "THROW", <<>>)}}
\* Nothing but a return, or but constants.
Bare == {Part(Head3(1) \o <<Do(1, "RET", <<v>>)>>, << <<>> >>) : v \in 1 .. 3}

\* Two blocks that return, throw or return nothing.
Ends(b, v) == {Do(b, "RET", <<w>>) : w \in {2, 3, v}}
                \cup {Do(b, "THROW", <<>>)}
Forked == {Part(Head3(1) \o <<Do(1, "CMP", <<1, 3>>), Jump(1), Do(2, "SUB", <<1, 2>>), x,
                              Do(3, "XOR", <<2, 1>>), y>>,
                << <<2, 3>>, <<>>, <<>> >>) :
             x \in Ends(2, 6), y \in Ends(3, 8)}
          \cup {Part(Head3(1) \o <<Do(1, "CMP", <<1, 3>>), Jump(1), Do(2, "SUB", <<1, 2>>),
                                   Do(2, "RET_VOID", <<>>), Do(3, "XOR", <<2, 1>>), y>>,
                     << <<2, 3>>, <<>>, <<>> >>) :
                  y \in {Do(3, "RET_VOID", <<>>), Do(3, "THROW", <<>>)}}
\* A throw before the return, in one block or in one of two branches.
Thrown == {Part(Head3(1) \o <<Do(1, "ADD", <<1, 2>>), Do(1, "THROW", <<>>), end>>, << <<>> >>) :
             end \in {Do(1, "RET", <<4>>), Do(1, "RET_VOID", <<>>)}}
          \cup {Part(Head3(1) \o <<Do(1, "CMP", <<1, 3>>), Jump(1), Do(2, "THROW", <<>>), x,
                                   Do(3, "XOR", <<2, 1>>), y>>,
                     << <<2, 3>>, <<>>, <<>> >>) :
                  x \in {Do(2, "RET", <<3>>), Do(2, "RET_VOID", <<>>)}, y \in Ends(3, 8)}

\* One branch returns at once.
Early == {Part(Head3(1) \o <<Do(1, "CMP", <<1, 3>>), Jump(1), Do(2, "RET", <<2>>)>> \o more,
               << <<2, 3>>, <<>>, <<>> >>) :
            more \in {<<Do(3, "RET", <<1>>)>>, <<Do(3, "NOT", <<2>>), Do(3, "RET", <<7>>)>>}}

\* A join, whose phi is returned; one branch may be empty.
Joined == {Part(Head3(1) \o <<Do(1, "CMP", <<1, 3>>), Jump(1), Do(2, "SUB", <<1, 2>>)>>
                  \o third \o
                <<Phi(4, <<6, v>>, <<2, 3>>), Do(4, "RET", <<7 + Len(third)>>)>>,
                << <<2, 3>>, <<4>>, <<4>>, <<>> >>) :
             third \in {<<>>, <<Do(3, "XOR", <<2, 1>>)>>}, v \in {2, 3}}
\* A loop, as in the second test.
Looped == {Part(Head3(1) \o <<Do(1, "ADD", <<1, 2>>), Do(2, "CMP", <<4, 3>>), Jump(2),
                              Do(2, "RET_VOID", <<>>)>>, << <<2>>, <<1>> >>),
           Part(Head3(1) \o <<Do(1, "ADD", <<1, 2>>), Do(2, "CMP", <<4, 3>>), Jump(2),
                              Do(3, "NOT", <<4>>), Do(3, "RET", <<7>>)>>, << <<2>>, <<1, 3>>, <<>> >>)}

Callees == Straight \cup Bare \cup Forked \cup Thrown \cup Early \cup Joined \cup Looped

\* Callers with parameter 1 and constant 2, which call graph 2.
Head2 == <<Do(1, "PARAMETER", <<>>), Do(1, "CONSTANT", <<>>)>>
Args  == {<<1, 2>>, <<2, 1>>, <<1, 1>>}

InOneBlock == {Part(Head2 \o <<Call(1, 2, a)>> \o after, << <<>> >>) :
                 a \in Args,
                 after \in {<<Do(1, "RET", <<3>>)>>,
                            <<Do(1, "SUB", <<3, 1>>), Do(1, "RET", <<4>>)>>,
                            <<Do(1, "ADD", <<3, 3>>), Do(1, "RET", <<4>>)>>}}
\* The block of the call goes on to two blocks, or ends with the call.
BeforeBranch == {Part(Head2 \o <<Call(1, 2, <<1, 2>>), Do(1, "CMP", <<1, 3>>), Jump(1),
                                 Do(2, "RET", <<3>>), Do(3, "NOT", <<3>>), Do(3, "RET", <<7>>)>>,
                      << <<2, 3>>, <<>>, <<>> >>)}
Split2 == {Part(Head2 \o <<Do(1, "CMP", <<1, 2>>), Jump(1), Call(2, 2, <<1, 2>>), last>>,
                << <<2, 3>>, <<3>>, <<>> >>) : last \in {Do(3, "RET", <<1>>)}}
AtEnd == Split2 \cup
         {Part(Head2 \o <<Do(1, "CMP", <<1, 2>>), Jump(1), Call(2, 2, <<1, 2>>)>> \o rest
                 \o <<Phi(3, <<v, 2>>, <<2, 1>>), Do(3, "RET", <<6 + Len(rest)>>)>>,
                << <<2, 3>>, <<3>>, <<>> >>) :
            rest \in {<<>>, <<Do(2, "NOT", <<5>>)>>}, v \in {5, 1}}
\* An empty first block; a loop around the call.
EmptyFirst == {Part(<<Do(2, "PARAMETER", <<>>), Do(2, "CONSTANT", <<>>), Call(2, 2, <<1, 2>>),
                      Do(2, "RET", <<3>>)>>, << <<2>>, <<>> >>),
               Part(Head2 \o <<Call(2, 2, <<1, 2>>), Do(2, "CMP", <<1, 2>>), Jump(2), Do(3, "RET", <<2>>)>>,
                    << <<2>>, <<2, 3>>, <<>> >>)}

Callers == InOneBlock \cup BeforeBranch \cup AtEnd \cup EmptyFirst

\* Two calls in one block, or in two, of one callee or two.
TwoCallers(g) ==
  {Part(Head2 \o <<Call(1, 2, <<1, 2>>), Call(b, g, <<2, x>>), Do(b, "RET", <<4>>)>>,
        IF b = 1 THEN << <<>> >> ELSE << <<2>>, <<>> >>) : b \in 1 .. 2, x \in {1, 3}}

-----------------------------------------------------------------------------
\* The parts one after the other, the caller last; its graph is number 1.
Shifted(i, n, m) == [i EXCEPT !.in = [k \in DOMAIN @ |-> @[k] + n],
                              !.from = [k \in DOMAIN @ |-> @[k] + m], !.bb = @ + m]
Joining(p, q) ==
  LET n == Len(p.insts)
      m == Len(p.succs)
  IN  [insts |-> p.insts \o [k \in DOMAIN q.insts |-> Shifted(q.insts[k], n, m)],
       succs |-> p.succs \o [b \in DOMAIN q.succs |->
                               [k \in DOMAIN q.succs[b] |-> q.succs[b][k] + m]]]
Interval(a, b) == [k \in 1 .. b - a |-> a + k]

Program1(f, c) ==
  LET p == Joining(f, c)
      m == Len(f.succs)
  IN  [insts |-> p.insts, succs |-> p.succs,
       lists |-> <<Interval(m, Len(p.succs)), Interval(0, m)>>]
Program2(f, g, c) ==
  LET p == Joining(Joining(f, g), c)
      m == Len(f.succs)
      n == m + Len(g.succs)
  IN  [insts |-> p.insts, succs |-> p.succs,
       lists |-> <<Interval(n, Len(p.succs)), Interval(0, m), Interval(m, n)>>]

Few == {f \in Straight : f.insts[4].in = <<1, 2>>} \cup Joined
MCPrograms == {Program1(f, c) : f \in Callees, c \in Callers \cup TwoCallers(2)}
                \cup {Program2(f, g, c) : f, g \in Few, c \in TwoCallers(3)}
=============================================================================
