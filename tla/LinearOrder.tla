----------------------------- MODULE LinearOrder -----------------------------
(***************************************************************************)
(* The linear order of the blocks (pass/linear_order.cpp), which runs      *)
(* LoopAnalyzer first: the blocks are laid out in reverse post-order, but  *)
(* a loop is laid out as a whole when its header is met.  A conditional    *)
(* block should be followed by its false successor: inside loops           *)
(* FixFalseBranchOrder inverts the condition where that helps, elsewhere   *)
(* CheckFalseBranchOrder asserts it.  One step is one block of the reverse *)
(* post-order.                                                             *)
(*                                                                         *)
(* Of the instructions of a block only the last matters: a conditional     *)
(* jump, whose target is the true successor, a JMP, something else, or     *)
(* nothing in an empty block.                                              *)
(***************************************************************************)
EXTENDS LoopAnalyzer

VARIABLES
  ends,       \* the last instruction of every block
  target,     \* target_bb_ of the conditional jump of every block, or Null
  inverted,   \* the blocks whose condition was inverted an odd number of times
  rpo,        \* the blocks of the reverse post-order that are still to come
  order,      \* linear_order_
  status      \* "pending", "order" or "done"; "misplaced" or "nojump" after a
              \* failed assertion; "crash"; "used" in Liveness

layout  == <<ends, target, inverted, rpo, order, status>>
allVars == <<vars, layout>>

TrueSucc(s, b)  == s[b][1]
FalseSucc(s, b) == s[b][2]

\* Fault variant: an empty block is taken for a branch.
TwoWay(b)       == Len(succ[b]) = 2

Conditional(b)  == Len(succ[b]) = 2 /\ ends[b] = "cond"

\* What GraphBuilder is given: a block with two successors ends with a
\* conditional jump or is empty.
Ends(s) == {e \in [Block -> {"cond", "jmp", "other", "empty"}] :
              \A b \in Block : IF Len(s[b]) = 2 THEN e[b] \in {"cond", "empty"} ELSE e[b] # "cond"}

LayoutInit ==
  /\ ends \in Ends(succ)
  /\ target = [b \in Block |-> IF Conditional(b) THEN TrueSucc(succ, b) ELSE Null]
  /\ inverted = {}
  /\ rpo = <<>>
  /\ order = <<>>
  /\ status = "pending"

LinearInit == Init /\ LayoutInit

-----------------------------------------------------------------------------
(***************************************************************************)
(* The state of the layout inside one step, and what may end the program.  *)
(***************************************************************************)
LayoutState == [succ : Cfgs, order : Seq(Block), inverted : SUBSET Block,
                status : {"order", "misplaced", "nojump", "crash"}]

Fine(s)    == s.status = "order"
Stop(s, w) == [s EXCEPT !.status = w]

\* linear_order_.back() == p; there is no last element in an empty list.
Follows(s, p) == s.order # <<>> /\ Last(s.order) = p

\* Fault variant: the condition is inverted when it need not be.
InvertsElsewhere(s, p, b) == FalseSucc(s.succ, p) = b /\ Follows(s, p)

\* The condition of p is inverted: its true successor b comes right after it.
Inverts(s, p, b) == TrueSucc(s.succ, p) = b /\ Follows(s, p)

\* FixFalseBranchOrder, for one predecessor.
FixAfter(s, p, b) ==
  IF ~Fine(s) \/ ~Conditional(p) THEN s
  ELSE IF TrueSucc(s.succ, p) = b /\ s.order = <<>> THEN Stop(s, "crash")
  ELSE IF Inverts(s, p, b)
  THEN [s EXCEPT !.succ[p]  = Reverse(@),
                 !.inverted = IF p \in @ THEN @ \ {p} ELSE @ \cup {p}]
  ELSE s

\* CheckFalseBranchOrder, for one predecessor.
CheckAfter(s, p, b) ==
  IF ~Fine(s) \/ ~Conditional(p) \/ FalseSucc(s.succ, p) # b THEN s
  ELSE IF s.order = <<>> THEN Stop(s, "crash")
  ELSE IF ~Follows(s, p) THEN Stop(s, "misplaced")
  ELSE IF ends[b] = "empty" THEN Stop(s, "crash")
  ELSE IF ends[b] # "jmp" THEN Stop(s, "nojump")
  ELSE s

FixFalseBranchOrder(s, b) ==
  EachOf([t \in LayoutState |-> [p \in Block |-> FixAfter(t, p, b)]], Preds(succ, b), s)
CheckFalseBranchOrder(s, b) ==
  EachOf([t \in LayoutState |-> [p \in Block |-> CheckAfter(t, p, b)]], Preds(succ, b), s)

\* Fault variant: no block is marked.
NoMarks(s, b)  == FALSE

\* A block takes its place and is marked; the marked blocks are those placed.
Placed(s, b)   == b \in Range(s.order)
PlaceIn(s, b)  == IF Fine(s) THEN [s EXCEPT !.order = Append(@, b)] ELSE s

\* Fault variant: the blocks that belong to an inner loop are placed as well.
AnyBlock(b, l) == TRUE

\* A loop places its own blocks; those of inner loops come with their loop.
OwnBlock(b, l) == loop[b] = l

\* The blocks of a loop, which are stored in reversed order.
FromHeader(l) == Reverse(loops[l].blocks)

\* One block of loop l; process is what the calls do that ProccessLoop makes.
TakeBlock(process, s, l, b) ==
  IF IsLoopHeader(b) /\ loop[b] # l THEN process[s][loop[b]]
  ELSE IF ~Placed(s, b) /\ OwnBlock(b, l) THEN PlaceIn(FixFalseBranchOrder(s, b), b)
  ELSE s

\* A call of ProccessLoop.
TakeLoop(process, s, l) ==
  EachOf([t \in LayoutState |-> [b \in Block |-> TakeBlock(process, t, l, b)]], FromHeader(l), s)

\* ProccessLoop; process[n] is a call that others may nest in n deep.  The
\* header of a loop dominates the headers of the loops it calls for, so N is
\* deep enough.
ProccessLoop ==
  LET process[n \in 0 .. N] ==
        IF n = 0 THEN [s \in LayoutState |-> [l \in DOMAIN loops |-> s]]
        ELSE [s \in LayoutState |-> [l \in DOMAIN loops |-> TakeLoop(process[n - 1], s, l)]]
  IN  process[N]

-----------------------------------------------------------------------------
\* The passes that LinearOrder runs first.
Analyse == /\ CollectBackEdges \/ PopulateLoops \/ NewRoot \/ BuildLoopTree \/ SetRootLoop
           /\ UNCHANGED layout

Begin == /\ pc = "done"
         /\ rpo' = ReversePostOrder(succ)
         /\ pc' = "layout"
         /\ status' = "order"
         /\ UNCHANGED <<succ, loops, loop, todo, root, ends, target, inverted, order>>

\* One block of the reverse post-order.
Place ==
  /\ status = "order" /\ rpo # <<>>
  /\ LET b == Head(rpo)
         s == [succ |-> succ, order |-> order, inverted |-> inverted, status |-> status]
         t == IF Placed(s, b) THEN s
              ELSE IF IsLoopHeader(b) THEN ProccessLoop[s][loop[b]]
              ELSE PlaceIn(CheckFalseBranchOrder(s, b), b)
     IN  /\ succ' = t.succ /\ order' = t.order /\ inverted' = t.inverted /\ status' = t.status
  /\ rpo' = Tail(rpo)
  /\ UNCHANGED <<loops, loop, todo, root, pc, ends, target>>

SetLinearOrder == /\ status = "order" /\ rpo = <<>>
                  /\ status' = "done"
                  /\ UNCHANGED <<vars, ends, target, inverted, rpo, order>>

Stopped == status \in {"done", "misplaced", "nojump", "crash"} /\ UNCHANGED allVars

LinearNext == Analyse \/ Begin \/ Place \/ SetLinearOrder \/ Stopped
LinearSpec == LinearInit /\ [][LinearNext]_allVars

-----------------------------------------------------------------------------
\* b comes directly after a in the order.
Adjacent(a, b) == \E i \in 1 .. Len(order) - 1 : order[i] = a /\ order[i + 1] = b

\* Every reachable block is laid out exactly once, the entry first, though
\* loops are laid out recursively and the analysis may have lost some.
EveryBlockOnce ==
  status = "done" =>
    /\ Range(order) = Reachable(succ) /\ Head(order) = Root
    /\ IsInjective(order)

\* Where the loops are well structured, the source of the back edge comes last
\* of the blocks of its loop, and the blocks of an outermost and of an innermost
\* loop are laid out without a gap, the header first.
LoopsContiguous ==
  status = "done" =>
    \/ \A l \in Bodies : \E i \in DOMAIN order :
         /\ order[i] = loops[l].source
         /\ BodyOf(l) \cap {order[j] : j \in DOMAIN order \cap (i + 1 .. Len(order))} = {}
         /\ loops[l].outer = root \/ loops[l].inner = <<>> =>
              /\ i >= Cardinality(BodyOf(l)) /\ order[i - Cardinality(BodyOf(l)) + 1] = loops[l].header
              /\ BodyOf(l) = {order[j] : j \in i - Cardinality(BodyOf(l)) + 1 .. i}
    \/ ~Structured

\* If the pass returns, a branch to a false successor outside all loops is
\* followed by that block, even after later inversions; and where the loops are
\* well structured, a block of a loop never comes directly after a branch whose
\* true successor it is: that branch has been inverted and not turned back.
BranchesFallThrough ==
  status = "done" =>
    /\ \A p \in Reachable(succ) :
         Conditional(p) /\ loop[FalseSucc(succ, p)] = Null => Adjacent(p, FalseSucc(succ, p))
    /\ \/ \A p, b \in Block : Adjacent(p, b) /\ Conditional(p) /\ TrueSucc(succ, p) = b => loop[b] = Null
       \/ ~Structured

\* The pass reads through a null pointer or before the start of the order only
\* if a conditional block branches to the entry, or to an empty block.
CrashExplained ==
  status = "crash" =>
    \E p \in Reachable(succ) :
      ends[p] = "cond" /\ \E b \in SuccSet(succ, p) : b = Root \/ ends[b] = "empty"

\* "jump goes to true branch", where the pass returns.
JumpGoesToTrueBranch ==
  status = "done" => \A p \in Block : Conditional(p) => target[p] = TrueSucc(succ, p)
=============================================================================
