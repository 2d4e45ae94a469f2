--------------------------------- MODULE RPO ---------------------------------
(***************************************************************************)
(* The reverse post-order pass (pass/rpo.cpp).  The recursion of           *)
(* PostOrderVisitor is an explicit stack of frames, one per active call; a *)
(* frame holds a block and the index of its next successor.  One step is   *)
(* one successor looked at, or one return.  Marking is the set visited: by *)
(* MarkersProofs!NothingStale a fresh marker marks no block that passes of *)
(* the same graph wrote before.  A block that was unbound from its graph   *)
(* (DomTreeSlow does that) is not entered.                                 *)
(***************************************************************************)
EXTENDS Orders, FiniteSets

VARIABLES
  succ,       \* the successor lists, fixed
  present,    \* the blocks whose graph_ is not null
  visited,    \* the blocks marked with visited_marker
  stack,      \* the active calls, innermost last
  result,     \* the blocks in post-order
  rpo,        \* rpo_basic_blocks_ of the graph
  pc          \* "start", "visit" or "done"

vars == <<succ, present, visited, stack, result, rpo, pc>>

\* Fault variant: the loop does not advance.
NotAdvanced == stack

Frame     == [block : Block, next : Nat \ {0}]
Call(b)   == [block |-> b, next |-> 1]
Top       == stack[Len(stack)]
HasNext   == stack # <<>> /\ Top.next <= Len(succ[Top.block])
NextSucc  == succ[Top.block][Top.next]
Advanced  == [stack EXCEPT ![Len(stack)] = [Top EXCEPT !.next = @ + 1]]

Init == /\ succ \in Cfgs
        /\ present \in {Block} \cup {Block \ {b} : b \in Block \ {Root}}
        /\ visited = {}
        /\ stack = <<>>
        /\ result = <<>>
        /\ rpo = <<>>
        /\ pc = "start"

\* RunPassImpl marks the entry, present or not, and visits its successors.
Start == /\ pc = "start"
         /\ visited' = {Root}
         /\ stack' = <<Call(Root)>>
         /\ pc' = "visit"
         /\ UNCHANGED <<succ, present, result, rpo>>

\* Fault variant: unbound blocks count.
ForgetsPresence(b) == b \in visited

\* The early return of PostOrderVisitor.
Turned(b) == b \in visited \/ b \notin present

\* A call that returns at once.
Skip == /\ pc = "visit" /\ HasNext
        /\ Turned(NextSucc)
        /\ stack' = Advanced
        /\ UNCHANGED <<succ, present, visited, result, rpo, pc>>

\* A call that marks its block and goes on with its successors.
Enter == /\ pc = "visit" /\ HasNext
         /\ ~Turned(NextSucc)
         /\ visited' = visited \cup {NextSucc}
         /\ stack' = Append(Advanced, Call(NextSucc))
         /\ UNCHANGED <<succ, present, result, rpo, pc>>

\* Fault variant: the list is built back to front.
Prepend(s, b) == <<b>> \o s

\* The block is pushed once its successors are done.
Push(s, b) == Append(s, b)

Return == /\ pc = "visit" /\ stack # <<>> /\ ~HasNext
          /\ result' = Push(result, Top.block)
          /\ stack' = SubSeq(stack, 1, Len(stack) - 1)
          /\ UNCHANGED <<succ, present, visited, rpo, pc>>

Finish == /\ pc = "visit" /\ stack = <<>>
          /\ rpo' = Reverse(result)
          /\ pc' = "done"
          /\ UNCHANGED <<succ, present, visited, stack, result>>

Terminated == pc = "done" /\ UNCHANGED vars

Step == Start \/ Skip \/ Enter \/ Return \/ Finish
Next == Step \/ Terminated
Spec == Init /\ [][Next]_vars /\ WF_vars(Step)

-----------------------------------------------------------------------------
\* The type invariant of the pass.
TypeOK ==
  /\ succ \in Cfgs
  /\ present \in SUBSET Block
  /\ visited \in SUBSET Block
  /\ stack \in Seq(Frame)
  /\ result \in Seq(Block)
  /\ rpo \in Seq(Block)
  /\ pc \in {"start", "visit", "done"}

\* No block is listed twice, though it can be reached along many edges.
NoRepeats == \A i, j \in 1 .. Len(rpo) : rpo[i] = rpo[j] => i = j

\* The order holds exactly the blocks that the entry reaches through blocks
\* of the graph, each once and the entry first: what DomTreeSlow and the loop
\* passes take GetRPOBasicBlocks to be.
ExactlyReachable ==
  pc = "done" => Range(rpo) = Reach(succ, present) /\ rpo[1] = Root /\ NoRepeats

\* An edge leads backwards in the order only inside a cycle; with
\* LoopAnalyzer's reading of the order, a block without a loop comes after
\* all its predecessors.
BackwardOnlyInCycles ==
  pc = "done" =>
    \A i, j \in 1 .. Len(rpo) :
      j < i /\ rpo[j] \in SuccSet(succ, rpo[i]) =>
        rpo[i] \in ReachFrom(succ, present, rpo[j])

\* On a complete graph the pass computes the order that the modules of later
\* passes take from Orders.
MatchesReference == pc = "done" /\ present = Block => rpo = ReversePostOrder(succ)

\* The recursion always comes to an end, cycles or not.
Terminates == <>(pc = "done")
=============================================================================
