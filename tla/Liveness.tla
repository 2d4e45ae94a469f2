------------------------------ MODULE Liveness ------------------------------
(***************************************************************************)
(* The liveness analysis (pass/liveness_analysis.cpp), which runs          *)
(* LinearOrder first: the instructions are numbered along the linear order *)
(* and one pass over the blocks, backwards, builds a live interval for     *)
(* every value.  The register allocator takes two values whose intervals   *)
(* do not meet to be free to share a register.                             *)
(*                                                                         *)
(* An instruction is named by its block and its place there.  Its inputs   *)
(* are pairs of an instruction and, for a phi, the predecessor it comes    *)
(* from; the analysis looks at the instruction only.  The kinds are phi,   *)
(* jump (JMP and conditional jumps), cmp, void (RET_VOID) and value.       *)
(***************************************************************************)
EXTENDS LinearOrder

VARIABLES
  code,       \* the instructions of every block
  left,       \* the blocks that the backward pass has not reached
  number,     \* the live number of every instruction, by block and place
  range,      \* bb_live_interval_ of every block
  liveIn,     \* live_inputs_ of every block
  interval,   \* inst_live_interval_, defined for the instructions it has
  stage       \* "order", "scan", "done" or "crash"

analysis == <<number, range, liveIn, interval>>
liveVars == <<allVars, code, left, analysis, stage>>

Insts == UNION {{b} \X DOMAIN code[b] : b \in Block}
Inst(v) == code[v[1]][v[2]]
Kind(v) == Inst(v).kind
Inputs(v) == {p[1] : p \in Inst(v).ins}

\* What LinearOrder sees of the last instruction of a block.
EndOf(s, b) ==
  IF code[b] = <<>> THEN "empty"
  ELSE IF Last(code[b]).kind # "jump" THEN "other"
  ELSE IF Len(s[b]) = 2 THEN "cond" ELSE "jmp"

LivenessInit ==
  /\ ends = [b \in Block |-> EndOf(succ, b)]
  /\ LayoutInit
  /\ left = <<>>
  /\ number = [b \in Block |-> <<>>]
  /\ range = [b \in Block |-> [start |-> 0, end |-> 0]]
  /\ liveIn = [b \in Block |-> {}]
  /\ interval = << >>
  /\ stage = "order"

Order == LinearNext /\ ~(status \in {"done", "used", "misplaced", "nojump", "crash"})
         /\ UNCHANGED <<code, left, analysis, stage>>

-----------------------------------------------------------------------------
Life      == [start : Nat, end : Nat]
Numbering == [cur : Nat, number : [Block -> Seq(Nat)], range : [Block -> Life]]

\* InitLiveness for one block: a phi has the number of what precedes it.
InitBlock(s, b) ==
  LET steps(i) == Cardinality({k \in 1 .. i : code[b][k].kind # "phi"})
      next     == s.cur + 2 * steps(Len(code[b])) + 2
  IN  [cur    |-> next,
       number |-> [s.number EXCEPT ![b] = [i \in DOMAIN code[b] |-> s.cur + 2 * steps(i)]],
       range  |-> [s.range EXCEPT ![b] = [start |-> s.cur, end |-> next]]]

InitLiveness ==
  /\ stage = "order" /\ status = "done"
  /\ LET s == EachOf([s \in Numbering |-> [b \in Block |-> InitBlock(s, b)]],
                     order, [cur |-> 0, number |-> number, range |-> range])
     IN  number' = s.number /\ range' = s.range
  /\ left' = order
  /\ stage' = "scan" /\ status' = "used"
  /\ UNCHANGED <<vars, ends, target, inverted, rpo, order, code, liveIn, interval>>

-----------------------------------------------------------------------------
(***************************************************************************)
(* CalculateLifeIntervals.                                                 *)
(***************************************************************************)
Smaller(a, b) == IF a < b THEN a ELSE b
Larger(a, b)  == IF a < b THEN b ELSE a

\* The interval of v after AddInstLiveInterval.
Extended(iv, v, a, b) ==
  IF v \in DOMAIN iv THEN [start |-> Smaller(a, iv[v].start), end |-> Larger(b, iv[v].end)]
  ELSE [start |-> a, end |-> b]

ExtendAll(iv, S, a, b) ==
  [v \in DOMAIN iv \cup S |-> IF v \in S THEN Extended(iv, v, a, b) ELSE iv[v]]

\* AddPhiInputsToLiveset: the inputs of the leading phis of c that b defines.
LeadingPhis(c) == {i \in DOMAIN code[c] : \A k \in 1 .. i : code[c][k].kind = "phi"}
PhiInputs(b, c) == {v \in UNION {Inputs(<<c, i>>) : i \in LeadingPhis(c)} : v[1] = b}

\* The live set at the end of b.
LiveAtEnd(b) == UNION {liveIn[c] \cup PhiInputs(b, c) : c \in SuccSet(succ, b)}

\* An instruction starts its interval.
Started(iv, v, n) ==
  [u \in DOMAIN iv \cup {v} |->
     IF u # v THEN iv[u] ELSE [start |-> n, end |-> IF v \in DOMAIN iv THEN iv[v].end ELSE n + 2]]

\* Fault variant: a definition does not end the life of its value.
Undefined(live, v) == live

\* live_set.RemoveInst
Removed(live, v) == live \ {v}

\* One instruction of the scan, IterateOverInputs included: the live set, and
\* the intervals, which do not depend on it.
ScanLive(live, v) ==
  IF Kind(v) = "phi" THEN Removed(live, v) ELSE Removed(live, v) \cup Inputs(v)

ScanInterval(iv, v) ==
  IF Kind(v) = "phi" THEN iv
  ELSE LET n == number[v[1]][v[2]]
       IN  ExtendAll(Started(iv, v, n), Inputs(v), range[v[1]].start, n)

\* The instructions of b from the last to the first.
Backwards(b) == Reverse([i \in DOMAIN code[b] |-> <<b, i>>])

\* The live set at the start of b.
LiveAtStart(b) ==
  EachOf([live \in SUBSET Insts |-> [v \in Insts |-> ScanLive(live, v)]], Backwards(b), LiveAtEnd(b))
    \ ({b} \X LeadingPhis(b))

\* Fault variant: live values are extended over the header only.
HeaderEnd(b) == range[b].end

\* The end of the loop of which b is the header.
LoopEnd(b) == range[loops[loop[b]].source].end

\* Fault variant: only an empty block is fatal.
Empty(b) == code[b] = <<>>

\* The loop over the leading phis of the block runs off its end.
RunsOff(b) == \A i \in DOMAIN code[b] : code[b][i].kind = "phi"

Current == Last(left)

ScanBlock ==
  /\ stage = "scan" /\ left # <<>>
  /\ ~RunsOff(Current) /\ \A c \in SuccSet(succ, Current) : ~RunsOff(c)
  /\ LET b    == Current
         live == LiveAtStart(b)
         iv   == FoldLeft(ScanInterval,
                          ExtendAll(interval, LiveAtEnd(b), range[b].start, range[b].end),
                          Backwards(b))
     IN  /\ liveIn' = [liveIn EXCEPT ![b] = live]
         /\ interval' = IF IsLoopHeader(b) THEN ExtendAll(iv, live, range[b].start, LoopEnd(b)) ELSE iv
  /\ left' = Front(left)
  /\ UNCHANGED <<allVars, code, number, range, stage>>

ScanCrash ==
  /\ stage = "scan" /\ left # <<>>
  /\ RunsOff(Current) \/ \E c \in SuccSet(succ, Current) : RunsOff(c)
  /\ stage' = "crash"
  /\ UNCHANGED <<allVars, code, left, analysis>>

\* An instruction without a result has an empty interval.
Reset(i) == [start |-> 0, end |-> 0]

SetLiveIntervals ==
  /\ stage = "scan" /\ left = <<>>
  /\ interval' = [v \in DOMAIN interval |->
                    IF Kind(v) \in {"jump", "void", "cmp"} THEN Reset(interval[v])
                    ELSE interval[v]]
  /\ stage' = "done"
  /\ UNCHANGED <<allVars, code, left, number, range, liveIn>>

Returned == /\ \/ stage \in {"done", "crash"}
               \/ status \in {"misplaced", "nojump", "crash"}
            /\ UNCHANGED liveVars

LivenessNext == Order \/ InitLiveness \/ ScanBlock \/ ScanCrash \/ SetLiveIntervals \/ Returned

\* The code that comes from the builder: inputs are instructions, and one of the
\* same block comes before what uses it, unless that is a phi.
Instruction == [kind : {"phi", "jump", "cmp", "void", "value"},
                ins  : SUBSET ((Block \X Nat) \X (Block \cup {Null}))]
Defined ==
  /\ code \in [Block -> Seq(Instruction)]
  /\ \A v \in Insts : \A w \in Inputs(v) :
       w \in Insts /\ (Kind(v) # "phi" /\ w[1] = v[1] => w[2] < v[2])

LivenessSpec == Init /\ LivenessInit /\ Defined /\ [][LivenessNext]_liveVars

-----------------------------------------------------------------------------
(***************************************************************************)
(* Where a value is live, from the paths of the graph.                     *)
(***************************************************************************)
\* The blocks that use v after its block, and those at whose end a phi of a
\* successor takes v.
UsedIn(v)  == {b \in Block \ {v[1]} : \E i \in DOMAIN code[b] :
                 code[b][i].kind # "phi" /\ v \in Inputs(<<b, i>>)}
PhiFrom(v) == {b \in Block : \E c \in SuccSet(succ, b) : \E i \in LeadingPhis(c) :
                 <<v, b>> \in Inst(<<c, i>>).ins}

EntersLive(v) == {b \in Block \ {v[1]} :
                    ReachFrom(succ, Block \ {v[1]}, b) \cap (UsedIn(v) \cup PhiFrom(v)) # {}}
LeavesLive(v) == LET enters == EntersLive(v)
                 IN  PhiFrom(v) \cup {b \in Block : SuccSet(succ, b) \cap enters # {}}

\* The numbers of the instructions of b that use v, phis apart.
UseNumbers(v, b) == {number[b][i] : i \in {k \in DOMAIN code[b] :
                       code[b][k].kind # "phi" /\ v \in Inputs(<<b, k>>)}}

\* The interval of v covers all points between its definition and its uses.
Covered(v) ==
  LET enters == EntersLive(v)
      leaves == LeavesLive(v) \cap (enters \cup {v[1]})
      points == {range[b].start : b \in enters \cap Range(order)}
                  \cup {range[b].end : b \in leaves \cap Range(order)}
                  \cup UNION {UseNumbers(v, b) : b \in Range(order)}
  IN  points # {} =>
        /\ v \in DOMAIN interval
        /\ \A n \in points \cup {number[v[1]][v[2]]} :
             interval[v].start <= n /\ n <= interval[v].end

Values == {v \in Insts : v[1] \in Range(order) /\ Kind(v) \in {"phi", "value"}}

\* Every phi takes from a predecessor what that predecessor itself defines.
PhiInputsLocal ==
  \A v \in Insts : Kind(v) = "phi" => \A p \in Inst(v).ins : p[1][1] = p[2]

\* A value is used only where its definition has come before on every path.
UsesDominated ==
  \A b \in Reachable(succ) : \A i \in DOMAIN code[b] :
    code[b][i].kind # "phi" => \A v \in Inputs(<<b, i>>) : Dominates(succ, v[1], b)

\* Only back edges lead backwards in a list of blocks: in the linear order,
\* and in the reverse post-order, which makes the graph reducible.
Forward(list) ==
  \A i, j \in DOMAIN list :
    j < i /\ list[j] \in SuccSet(succ, list[i]) => Dominates(succ, list[j], list[i])

ForwardLayout == Forward(order)
Reducible     == Forward(ReversePostOrder(succ))

\* An edge from a block to itself is not taken for a back edge.
NoSelfEdges == \A b \in Block : b \notin SuccSet(succ, b)

\* No value is taken to be live into a block from which no use of it is
\* reached before its definition; in particular nothing is live on entry.
LiveSetsSound ==
  \A b \in Block : \A v \in liveIn[b] : b \in EntersLive(v)

\* One backward pass is enough: where the loops are well structured, only back
\* edges lead backwards in the order, no block branches to itself, definitions
\* dominate their uses and phis take what the predecessor defines, every
\* interval covers all points where its value is live.
IntervalsCoverLiveness ==
  stage = "done" /\ NoSelfEdges /\ UsesDominated /\ PhiInputsLocal /\ ForwardLayout =>
    (\A v \in Values : Covered(v)) \/ ~Structured

\* The analysis returns on, and only on, graphs in which every block has an
\* instruction other than a phi.
NeedsAnInstruction ==
  LET bare == \E b \in Range(order) : \A i \in DOMAIN code[b] : code[b][i].kind = "phi"
  IN  (stage = "crash" => bare) /\ (stage = "done" => ~bare)

\* What the liveness tests expect of their graphs, which are reducible, whose
\* loops are well structured and whose phis take what the predecessor defines: an interval
\* lasts from the definition to the last use on every path.
LivesUntilLastUse ==
  stage = "done" /\ Structured /\ Reducible /\ NoSelfEdges /\ PhiInputsLocal =>
    \A v \in Values : Covered(v)
=============================================================================
