-------------------------------- MODULE Passes --------------------------------
(***************************************************************************)
(* The pass manager (pass/pass_manager.h) and the passes of a graph as it  *)
(* sees them: RunPass runs a pass unless its validity bit is set, and a    *)
(* pass runs others, takes and erases markers, resets bits and rewrites    *)
(* instructions in the order of its script.  The only steps that matter    *)
(* here are modelled, except those of DomTreeSlow, which this module       *)
(* composes with the rest: the orders that the other passes read are the   *)
(* ones it leaves behind, or those of a graph that has since been inlined  *)
(* into.  The bit of RPO is rpoValid.  Where a pass stops for a reason of  *)
(* its own its module tells why.  Two assumptions: the calls are fit for   *)
(* Inlining (Inlining!Unfit), and no pass has been run on their callees.   *)
(***************************************************************************)
EXTENDS DomTreeSlow

CONSTANT MARKER_NUM    \* the slots for markers

\* The code has four; three are enough.
ASSUME SlotsAssumption == MARKER_NUM \in Nat /\ MARKER_NUM >= 3

VARIABLES
  wanted,     \* the passes that a client may run on the graph, fixed
  valid,      \* the passes whose validity bit is set, without RPO
  calls,      \* the running passes and what is left of their scripts
  slots,      \* the number of slots in use
  dead,       \* some rewritten instruction has not been swept yet
  sites,      \* the blocks with a static call that Inlining will come to
  searched,   \* history: the number of loops that PopulateLoops has searched
  tree        \* history: the graph that DomTreeFast was run on

passVars == <<wanted, valid, calls, slots, dead, sites, searched, tree>>

Rewriting == {"ConstFolding", "Peephole"}
PassList  == Rewriting \cup {"RPO", "DomTreeSlow", "DomTreeFast", "LoopAnalyzer", "DCE", "Inlining",
                             "CheckElimination", "LinearOrder", "LivenessAnalysis", "RegAlloc"}

\* Every call inlined adds at least two blocks.
PassInit == /\ wanted \subseteq PassList
            /\ valid = {} /\ calls = <<>> /\ slots = 0 /\ dead = FALSE
            /\ sites \subseteq 1 .. size /\ size + 2 * Cardinality(sites) <= N
            /\ searched = 0 /\ tree = succ

\* Fault variant: the sweep is not asked for again.
SweptOnce == <<"RPO", "rewrite", "DCE">>

RewriteScript == <<"RPO", "rewrite", "invalidate", "DCE">>

\* What RunPassImpl of p does, step by step; LinearOrder keeps its marker.
Script(p) ==
  CASE p = "DomTreeSlow"      -> <<"unbinding">>
    [] p = "DomTreeFast"      -> <<"new", "erase">>
    [] p = "LoopAnalyzer"     -> <<"DomTreeFast", "new", "new", "erase", "erase", "RPO", "loops">>
    [] p \in Rewriting        -> RewriteScript
    [] p = "DCE"              -> <<"new", "sweep", "erase">>
    [] p = "Inlining"         -> <<"calls">>
    [] p = "CheckElimination" -> <<"DomTreeFast">>
    [] p = "LinearOrder"      -> <<"RPO", "LoopAnalyzer", "new">>
    [] p = "LivenessAnalysis" -> <<"LinearOrder">>
    [] p = "RegAlloc"         -> <<"LivenessAnalysis">>

-----------------------------------------------------------------------------
Stopped == pc \in {"abort", "undefined"}
Idle    == calls = <<>>
Popped  == Front(calls)
Current == Last(calls)

\* The next step of the running pass, and the calls after that step.
Doing(op) == ~Stopped /\ ~Idle /\ Current.todo # <<>> /\ Head(Current.todo) = op
Advanced  == Append(Popped, [Current EXCEPT !.todo = Tail(@)])

Called(p) == [pass |-> p, todo |-> Script(p)]
IsPassValid(p) == IF p = "RPO" THEN rpoValid ELSE p \in valid

\* RPO takes one marker and returns it; without a free slot NewMarker ends in
\* UNREACHABLE.
OrderBlocks == IF slots < MARKER_NUM THEN RunRPO(pc)
               ELSE pc' = "undefined" /\ UNCHANGED <<rpo, rpoValid, epoch, ordered>>

\* What a step of a pass manager other than those of DomTreeSlow and of
\* Inlining leaves alone.
graphVars == <<succ, size, present, dominators, initReach, bb, first, reached, analysed>>
loopVars  == <<sites, searched, tree>>

\* A client runs a pass; if the pass is valid nothing happens.
Request(p) == /\ Idle /\ ~Stopped
              /\ p \in wanted /\ ~IsPassValid(p)
              /\ IF p = "RPO" THEN OrderBlocks /\ UNCHANGED calls
                 ELSE calls' = <<Called(p)>> /\ UNCHANGED <<pc, rpo, rpoValid, epoch, ordered>>
              /\ UNCHANGED <<graphVars, wanted, valid, slots, dead, loopVars>>

\* The running pass runs p.
RunPass(p) == /\ Doing(p)
              /\ IF p = "RPO" THEN OrderBlocks /\ calls' = Advanced
                 ELSE /\ calls' = IF IsPassValid(p) THEN Advanced ELSE Append(Advanced, Called(p))
                      /\ UNCHANGED <<pc, rpo, rpoValid, epoch, ordered>>
              /\ UNCHANGED <<graphVars, wanted, valid, slots, dead, loopVars>>

\* Fault variant: the pass does not count as run.
NotRecorded(p) == valid

Validated(p) == valid \cup {p}

\* The running pass returns, and its bit is set.
Return == /\ ~Idle /\ ~Stopped /\ Current.todo = <<>>
          /\ valid' = Validated(Current.pass)
          /\ calls' = Popped
          /\ tree' = IF Current.pass = "DomTreeFast" THEN succ ELSE tree
          /\ UNCHANGED <<vars, wanted, slots, dead, sites, searched>>

NewMarker == /\ Doing("new")
             /\ epoch' = epoch + 1
             /\ calls' = Advanced
             /\ IF slots = MARKER_NUM THEN pc' = "undefined" /\ UNCHANGED slots
                ELSE IF EpochAllowed(epoch + 1) THEN slots' = slots + 1 /\ UNCHANGED pc
                ELSE pc' = "abort" /\ UNCHANGED slots
             /\ UNCHANGED <<graphVars, rpo, rpoValid, ordered, wanted, valid, dead, loopVars>>

EraseMarker == /\ Doing("erase")
               /\ slots' = slots - 1
               /\ calls' = Advanced
               /\ UNCHANGED <<vars, wanted, valid, dead, loopVars>>

\* The loops of a graph have different headers, each at the end of a back edge
\* whose source it dominates in the tree there is.
Headers == {h \in Block : \E b \in Reachable(succ) \cap Reachable(tree) :
                            h \in SuccSet(succ, b) /\ h \in StrictDominators(tree, b)}

\* PopulateLoops takes and erases a marker for every loop it still finds.
Loops == /\ Doing("loops")
         /\ \E n \in 0 .. Cardinality(Headers) :
              calls' = Append(Popped, [Current EXCEPT !.todo =
                         [k \in 1 .. 2 * n |-> IF k % 2 = 1 THEN "new" ELSE "erase"] \o Tail(@)])
              /\ searched' = searched + n
         /\ UNCHANGED <<vars, wanted, valid, slots, dead, sites, tree>>

\* Some of the instructions are replaced, or none.
RewriteInsts == /\ Doing("rewrite")
                /\ dead' \in {dead, TRUE}
                /\ calls' = Advanced
                /\ UNCHANGED <<vars, wanted, valid, slots, loopVars>>

\* SetPassValidity<DCE>(false)
InvalidateDCE == /\ Doing("invalidate")
                 /\ valid' = valid \ {"DCE"}
                 /\ calls' = Advanced
                 /\ UNCHANGED <<vars, wanted, slots, dead, loopVars>>

Sweep == /\ Doing("sweep")
         /\ dead' = FALSE
         /\ calls' = Advanced
         /\ UNCHANGED <<vars, wanted, valid, slots, loopVars>>

\* A step of DomTreeSlow, which keeps no marker from one step to the next.
UnbindBlocks == /\ Doing("unbinding") /\ slots < MARKER_NUM
                /\ Start \/ Unbind \/ Rerun \/ Bind
                /\ UNCHANGED passVars

UnboundAll == /\ Doing("unbinding") /\ pc = "done"
              /\ calls' = Advanced
              /\ UNCHANGED <<vars, wanted, valid, slots, dead, loopVars>>

\* The k blocks of a callee once its returns lead on to block k + 1; a block
\* that returns may have had a successor before.
Bodies(k) ==
  {body \in [1 .. k -> SuccLists] :
     \A b \in 1 .. k :
       /\ SuccSet(body, b) \subseteq 1 .. k + 1
       /\ \A i, j \in DOMAIN body[b] : i < j => body[b][i] # k + 1 /\ body[b][i] # body[b][j]}

\* The graph after block c has been split at its call: the blocks of the callee
\* come after the others, and last the one that takes over what followed.
Split(c, k, body) ==
  [b \in Block |-> IF b = c THEN <<size + 1>>
                   ELSE IF b \in size + 1 .. size + k
                   THEN [i \in DOMAIN body[b - size] |-> size + body[b - size][i]]
                   ELSE IF b = size + k + 1 THEN succ[c]
                   ELSE succ[b]]

\* The first call of the next block that has one is inlined; what follows it is
\* no longer in the block, nor in the list that the pass goes through.  No
\* validity bit is reset.
InlineCall ==
  /\ Doing("calls")
  /\ \E c \in sites :
       /\ \A other \in sites : c <= other
       /\ sites' = sites \ {c}
       /\ \E k \in 1 .. N - 1 - size - 2 * Cardinality(sites \ {c}) : \E body \in Bodies(k) :
            succ' = Split(c, k, body) /\ size' = size + k + 1
  /\ UNCHANGED <<present, dominators, rpo, rpoValid, epoch, initReach, bb, pc>>
  /\ UNCHANGED <<first, ordered, reached, analysed>>
  /\ UNCHANGED <<wanted, valid, calls, slots, dead, searched, tree>>

InlinedAll == /\ Doing("calls") /\ sites = {}
              /\ calls' = Advanced
              /\ UNCHANGED <<vars, wanted, valid, slots, dead, loopVars>>

Work == \/ \E p \in PassList : RunPass(p)
        \/ Return \/ NewMarker \/ EraseMarker \/ Loops \/ RewriteInsts \/ InvalidateDCE
        \/ Sweep \/ UnbindBlocks \/ UnboundAll \/ InlineCall \/ InlinedAll

\* The client may also leave the graph as it is.
Rest == (Idle \/ Stopped) /\ UNCHANGED <<vars, passVars>>

PassNext == (\E p \in PassList : Request(p)) \/ Work \/ Rest
PassSpec == Init /\ PassInit /\ [][PassNext]_<<vars, passVars>>

-----------------------------------------------------------------------------
Begun == valid \cup {calls[k].pass : k \in DOMAIN calls}

\* The markers that p can cost: DomTreeSlow makes an order without each block
\* that it goes over and one more afterwards, LoopAnalyzer takes two and one for
\* every loop, a rewriting pass makes the sweep necessary again.
Cost(p) == CASE p = "DomTreeSlow"  -> IF p \in valid THEN bb - 1 ELSE size
             [] p = "LoopAnalyzer" -> 2 + searched
             [] p \in {"Inlining", "CheckElimination", "LivenessAnalysis", "RegAlloc"} -> 0
             [] OTHER -> 1

\* A valid order is the one of the blocks that are bound and of the edges there
\* were when it was made.  These are the edges there are unless Inlining has
\* added some since: then the passes are given the order of the graph before,
\* until DomTreeSlow has been over all the blocks and left none valid.
ValidMeansFresh ==
  rpoValid => /\ rpo = Reach(ordered, present)
              /\ \/ ordered = succ
                 \/ "Inlining" \in Begun /\ ~(pc = "done" /\ bb > size)

\* No sequence of passes runs out of slots, though LinearOrder never returns
\* its own.  The assertion on epochs fails only if those that the graph had
\* used before and one run of each pass begun, with an order of the blocks,
\* come to MAX_EPOCH, however the passes run each other.
StopsOnlyWhenExhausted ==
  /\ pc # "undefined"
  /\ pc = "abort" => first + 1 + MapThenSumSet(Cost, Begun) >= MAX_EPOCH

\* When no pass is running nothing that a pass has rewritten is left in a
\* block, even if the sweep had been valid before the rewriting.
NothingUnswept == Idle => ~dead
=============================================================================
