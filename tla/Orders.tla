------------------------------- MODULE Orders -------------------------------
(***************************************************************************)
(* The reverse post-order as a function of the graph.  RPO states that the *)
(* pass computes it; the modules of later passes use it.                   *)
(***************************************************************************)
EXTENDS ControlFlow, SequencesExt

\* The members of a list are visited in turn; f[s][b] is what a visit of b
\* makes of the state s.
EachOf(f, list, s) == FoldLeft(LAMBDA t, b : f[t][b], s, list)

\* seen is the set of marked blocks, out is result.
VisitState == [seen : SUBSET Block, out : Seq(Block)]

\* A call of PostOrderVisitor; visit is what the calls that it makes do.
VisitBlock(succ, visit, s, b) ==
  IF b \in s.seen THEN s
  ELSE [EachOf(visit, succ[b], [s EXCEPT !.seen = @ \cup {b}]) EXCEPT !.out = Append(@, b)]

\* PostOrderVisitor; visit[n] is a call that others may nest in n deep.  A call
\* that goes on marks a block, so N is deep enough.
PostOrderVisitor(succ) ==
  LET visit[n \in 0 .. N] ==
        IF n = 0 THEN [s \in VisitState |-> [b \in Block |-> s]]
        ELSE [s \in VisitState |-> [b \in Block |-> VisitBlock(succ, visit[n - 1], s, b)]]
  IN  visit[N]

PostOrder(succ) == PostOrderVisitor(succ)[[seen |-> {}, out |-> <<>>]][Root].out
ReversePostOrder(succ) == Reverse(PostOrder(succ))
=============================================================================
