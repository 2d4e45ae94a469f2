----------------------------- MODULE DomTreeSlow -----------------------------
(***************************************************************************)
(* The quadratic dominator analysis (pass/dom_tree_slow.cpp): unbind each  *)
(* block in turn, recompute the reverse post-order, and let the block      *)
(* dominate everything that has dropped out of it.  Of the order only the  *)
(* set of blocks matters here, which is Reach by RPOProofs!ReachesExactly. *)
(* Every run of RPO uses up one marker epoch of the graph, and NewMarker   *)
(* asserts that epochs stay below MAX_EPOCH.  N bounds the blocks that the *)
(* graph may come to have: the ones it has are 1 .. size.                  *)
(***************************************************************************)
EXTENDS ControlFlow, SequencesExt, FiniteSets

CONSTANT MAX_EPOCH

ASSUME EpochAssumption == MAX_EPOCH \in Nat

VARIABLES
  succ,         \* the successor lists
  size,         \* the number of blocks in basic_blocks_
  present,      \* the blocks whose graph_ is not null
  dominators,   \* dominators_ of every block
  rpo,          \* the blocks of rpo_basic_blocks_
  rpoValid,     \* the validity bit of RPO
  epoch,        \* current_epoch_ of the graph
  initReach,    \* init_reach
  bb,           \* the block the loop is at
  pc,           \* "start", "unbind", "rerun", "bind", "done" or "abort"
  first,        \* history: the epoch before the pass
  ordered,      \* history: the graph that rpo was made of
  reached,      \* history: the graph that initReach was made of
  analysed      \* history: the graph that the dominators are worked out on

vars == <<succ, size, present, dominators, rpo, rpoValid, epoch, initReach, bb, pc,
          first, ordered, reached, analysed>>

\* Only the blocks of the graph have edges.
Fits(graph, n) ==
  \A b \in Block : SuccSet(graph, b) \subseteq 1 .. n /\ (b > n => graph[b] = <<>>)

\* A block that is not in the graph yet belongs to another one.
Init == /\ size \in 1 .. N
        /\ succ \in Cfgs /\ Fits(succ, size)
        /\ present = Block
        /\ dominators = [b \in Block |-> <<>>]
        /\ rpoValid \in BOOLEAN
        /\ rpo = IF rpoValid THEN Reachable(succ) ELSE {}
        /\ epoch \in 0 .. MAX_EPOCH - 1
        /\ rpoValid => epoch > 0
        /\ initReach = {}
        /\ bb = 2
        /\ pc = "start"
        /\ first = epoch
        /\ ordered = succ /\ reached = succ /\ analysed = succ

AddDominator(doms, S, d) == [b \in Block |-> IF b \in S THEN Append(doms[b], d) ELSE doms[b]]

\* The assertion of NewMarker.
EpochAllowed(e) == e < MAX_EPOCH

\* RunPass<RPO>: nothing if the bit is set; otherwise the order of the blocks
\* that are bound now, or a failed assertion in NewMarker.
RunRPO(next) ==
  IF rpoValid
  THEN pc' = next /\ UNCHANGED <<rpo, rpoValid, epoch, ordered>>
  ELSE /\ epoch' = epoch + 1
       /\ IF EpochAllowed(epoch + 1)
          THEN /\ rpo' = Reach(succ, present) /\ ordered' = succ
               /\ rpoValid' = TRUE /\ pc' = next
          ELSE pc' = "abort" /\ UNCHANGED <<rpo, rpoValid, ordered>>

LoopHead == IF bb' <= size THEN "unbind" ELSE "done"

\* The initial order; the entry dominates itself.
Start == /\ pc = "start"
         /\ RunRPO(IF size > 1 THEN "unbind" ELSE "done")
         /\ IF pc' = "abort"
            THEN UNCHANGED <<initReach, dominators, reached, analysed>>
            ELSE /\ initReach' = rpo' /\ reached' = ordered'
                 /\ dominators' = AddDominator(dominators, {Root}, Root) /\ analysed' = succ
         /\ UNCHANGED <<succ, size, present, bb, first>>

\* Fault variant: the old order is still taken for valid.
KeepValid(v) == v

\* SetPassValidity<RPO>(false)
Invalidate(v) == FALSE

\* The entry dominates bb; bb leaves the graph.
Unbind == /\ pc = "unbind"
          /\ dominators' = AddDominator(dominators, {bb}, Root)
          /\ present' = present \ {bb}
          /\ rpoValid' = Invalidate(rpoValid)
          /\ pc' = "rerun"
          /\ UNCHANGED <<succ, size, rpo, epoch, initReach, bb, first, ordered, reached, analysed>>

Rerun == /\ pc = "rerun"
         /\ RunRPO("bind")
         /\ UNCHANGED <<succ, size, present, dominators, initReach, bb, first, reached, analysed>>

\* Fault variant: the difference is taken the other way round.
Gained(before, after) == after \ before

\* ComputeVectorsDiff
Lost(before, after) == before \ after

\* bb dominates what the entry no longer reaches, and joins the graph again.
Bind == /\ pc = "bind"
        /\ dominators' = AddDominator(dominators, Lost(initReach, rpo), bb)
        /\ present' = present \cup {bb}
        /\ rpoValid' = Invalidate(rpoValid)
        /\ bb' = bb + 1
        /\ pc' = LoopHead
        /\ UNCHANGED <<succ, size, rpo, epoch, initReach, first, ordered, reached, analysed>>

Terminated == pc \in {"done", "abort"} /\ UNCHANGED vars

Next == Start \/ Unbind \/ Rerun \/ Bind \/ Terminated
Spec == Init /\ [][Next]_vars

-----------------------------------------------------------------------------
\* On return each of the blocks gone over that the initial order reached lists
\* those of them that dominate it, itself included, each once; the others list
\* only the entry.  The dominators are the ones of the graph as it was when the
\* loop began, the initial order may be of an earlier graph.
DominatorsExact ==
  pc = "done" =>
    \A b \in 1 .. bb - 1 :
      /\ Range(dominators[b]) = IF b \in Reachable(reached)
                                THEN {d \in 1 .. bb - 1 : Dominates(analysed, d, b)}
                                ELSE {Root}
      /\ \A i, j \in DOMAIN dominators[b] : dominators[b][i] = dominators[b][j] => i = j

\* The order is the one of the blocks and edges there are.
UpToDate == rpo = Reach(succ, present)

\* While no pass but RPO and this one runs, a valid bit never vouches for an
\* order computed while another set of blocks was bound, the loop goes over all
\* the blocks, and it starts from the order of the graph that it unbinds.
Undisturbed == /\ rpoValid => UpToDate
               /\ pc = "done" => bb = size + 1 /\ reached = succ /\ analysed = succ
=============================================================================
