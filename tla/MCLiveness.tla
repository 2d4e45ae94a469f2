----------------------------- MODULE MCLiveness -----------------------------
(* The loops and the layout of every connected graph in which the entry    *)
(* lists its successors in ascending order, and the life of one value in   *)
(* chains of blocks: a block goes on, skips the next one or branches back. *)
(* The value v is defined by a phi or another instruction of any block,    *)
(* used in any blocks that its block dominates, and taken by a phi from    *)
(* some predecessors.  A conditional block uses it in its CMP.  In         *)
(* BaredPrograms one block has lost all but its phis.                      *)
(*                                                                         *)
(* The loops do not depend on the instructions, so those of a graph are    *)
(* chosen when its layout begins, which is the first to look at them.      *)
EXTENDS Liveness, MCChains, MCGraphs

\* The number of edges of a small graph.
MaxEdges == 6

\* The blocks of the small graphs, in which the others are unbound.
Few       == 1 .. 4
Padded(s) == [b \in Block |-> IF b \in DOMAIN s THEN s[b] ELSE <<>>]

Op(kind, S) == [kind |-> kind, ins |-> S]

\* The instructions of block b: d defines v by an instruction of kind k, U uses
\* it, the phi of j takes it from P.
Block1(s, b, d, k, U, j, P) ==
  LET first == IF b = d /\ k = "phi" THEN 1 ELSE 0
      v     == <<d, IF k = "phi" THEN 1 ELSE IF j = d THEN 2 ELSE 1>>
      phi   == IF b = d /\ k = "phi" THEN <<Op("phi", IF b = j THEN {<<v, p>> : p \in P} ELSE {})>>
               ELSE IF b = j THEN <<Op("phi", {<<v, p>> : p \in P})>> ELSE <<>>
      def   == IF b = d /\ k = "value" THEN <<Op("value", {})>> ELSE <<>>
      ins   == IF b \in U THEN {<<v, Null>>} ELSE {}
  IN  phi \o def \o
      CASE Len(s[b]) = 2 -> <<Op("cmp", ins), Op("jump", {})>>
        [] Len(s[b]) = 1 -> (IF b \in U THEN <<Op("value", ins)>> ELSE <<>>) \o <<Op("jump", {})>>
        [] OTHER         -> (IF b \in U THEN <<Op("value", ins)>> ELSE <<>>) \o <<Op("void", {})>>

Dominated(s, d) == {b \in Reachable(s) : Dominates(s, d, b)}
JoinPreds(s, d, j) == {p \in Dominated(s, d) : j \in SuccSet(s, p)}

\* The programs on a graph.
Programs(s) ==
  UNION {{[b \in Block |-> Block1(s, b, d, k, U, jP[1], jP[2])] :
            k \in {"value"} \cup (IF d = Root THEN {} ELSE {"phi"}),
            U \in SUBSET Dominated(s, d),
            jP \in {<<0, {}>>} \cup UNION {{<<j, P>> : P \in SUBSET JoinPreds(s, d, j) \ {{}}} :
                                             j \in Block}} :
         d \in Reachable(s)}

\* Those with one use of v and without other phis.
SingleUse(s) == UNION {{[b \in Block |-> Block1(s, b, d, "value", {u}, 0, {})] :
                          u \in Dominated(s, d)} : d \in Reachable(s)}

\* A block loses everything but its phis; what remains still is a program.
Bared(c, b)     == [c EXCEPT ![b] = SelectSeq(@, LAMBDA i : i.kind = "phi")]
HasInst(c, v)   == v[2] \in DOMAIN c[v[1]]
IsProgram(s, c) ==
  \A b \in Block : /\ Len(s[b]) = 2 => c[b] = <<>> \/ Last(c[b]).kind = "jump"
                   /\ \A i \in DOMAIN c[b] : \A p \in c[b][i].ins : HasInst(c, p[1])
BaredPrograms(s) == {c \in {Bared(p, b) : p \in Programs(s), b \in Reachable(s)} : IsProgram(s, c)}

\* Every branch leads on first, or every branch leads back or over first.
Swapped(s)   == [b \in Block |-> Reverse(s[b])]
BothWays     == {Padded(s) : s \in Chains(1, 4)} \cup {Swapped(Padded(s)) : s \in Chains(1, 4)}

\* Three nested loops: blocks 1, 2 and 3 are the headers, 6, 5 and 4 the
\* sources.  A loop is left from its header, from its source or from both.
OnOrOut(on, out) == {<<on>>, <<on, out>>}
EitherWay(a, b)  == OnOrOut(a, b) \cup {<<b, a>>}
Nests == {s \in {<< <<2>>, h, k, t, u, <<1>> >> :
                  h \in EitherWay(3, 6), k \in OnOrOut(4, 5), t \in EitherWay(3, 5), u \in OnOrOut(2, 6)} :
            Reachable(s) = Block}

\* No block is empty and nothing is used.
Plain(s) == [b \in Block |-> CASE Len(s[b]) = 2 -> <<Op("cmp", {}), Op("jump", {})>>
                               [] Len(s[b]) = 1 -> <<Op("jump", {})>>
                               [] OTHER         -> <<Op("void", {})>>]

Unwritten == [b \in Block |-> <<>>]
FewLists  == {s \in SuccLists : Range(s) \subseteq Few /\ IsInjective(s)}
Edges(s)  == UNION {{b} \X SuccSet(s, b) : b \in Block}
Connected == {s \in {Padded(t) : t \in [Few -> FewLists]} :
                /\ s[Root] \in SortedLists /\ Reachable(s) = Few
                /\ Cardinality(Edges(s)) <= MaxEdges}

Unstarted == /\ loops = <<>> /\ todo = <<>> /\ root = Null /\ pc = "collect"
             /\ loop = [b \in Block |-> Null]
             /\ code = Unwritten /\ LivenessInit

\* The instructions are those of a program in S.
Written(S) == /\ UNCHANGED <<vars, inverted, rpo, order, status, left, analysis, stage>>
              /\ code' \in S
              /\ ends' = [b \in Block |-> EndOf(succ, b)]'
              /\ target' = [b \in Block |-> IF Conditional(b) THEN TrueSucc(succ, b) ELSE Null]'

FullInit == succ \in Connected \cup BothWays \cup Nests /\ Unstarted
FullNext == IF pc = "layout" /\ code = Unwritten
            THEN Written({Plain(succ)} \cup IF succ \in BothWays
                                            THEN Programs(succ) \cup BaredPrograms(succ)
                                            ELSE IF succ \in Nests THEN SingleUse(succ) ELSE {})
            ELSE LivenessNext
FullSpec == FullInit /\ [][FullNext]_liveVars

SingleUseInit == succ \in {Swapped(s) : s \in Chains(1, N)} /\ Unstarted
SingleUseNext == IF pc = "layout" /\ code = Unwritten THEN Written(SingleUse(succ)) ELSE LivenessNext
SingleUseSpec == SingleUseInit /\ [][SingleUseNext]_liveVars
=============================================================================
