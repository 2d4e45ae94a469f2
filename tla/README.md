# Verification of the IR optimiser

The program in `src/` is the middle end of a small compiler: a control flow graph of basic blocks with instructions in
SSA form, analyses over it (orders, dominators, loops, linear order, liveness), transformations (constant folding,
peephole rewriting, dead code elimination, check elimination, inlining) and a linear scan register allocator. This
directory holds TLA+ models of it, TLC runs that check them on every input of a small size, and TLAPS proofs that hold
for all sizes. `PROJECT.json` lists components, runs, hazards, findings and theorems, and maps every definition to
the lines of code it models.

Contents: 1 the system; 2 what is hard about it; 3 modules and code; 4 runs and bounds; 5 disagreements found;
6 proofs; 7 what is not modelled; 8 plan; 9 how to run it.

## 1. The system

Everything runs in one thread. A pass is an object that reads and writes the graph; `Graph::RunPass<T>` runs a pass
unless its validity bit says that its result still stands, and passes run the passes they depend on:

    RPO ---> DomTreeSlow
     |
     +-----> DomTreeFast --> LoopAnalyzer --> LinearOrder --> LivenessAnalysis --> RegAlloc
     |            +--------> CheckElimination
     +-----> ConstFolding --> DCE       +-> Peephole --> DCE       Inlining

The components, the state each of them keeps, its operations, and what makes it correct:

| component (code) | state | operations | correct when |
|---|---|---|---|
| Graph and builder (`ir/graph`, `ir/ir_builder`) | block list, successor and predecessor lists, parameters, the results of analyses, validity bits | `GraphBuilder`, `BuildDFG`, `CheckDominance`, `RunPass` | lists of users agree with inputs; a dominance query answers dominance |
| Basic block (`ir/basic_block`) | instruction list with first, last and phi pointers | push, pop, insert, unbind | the pointers and the list agree |
| Instruction (`ir/inst`) | inputs, users, values of a constant, target of a jump | `AddUser`, `RemoveUser`, `SubstituteInput`, destructor | every user is listed as long as it uses |
| Markers (`ir/marker.h`) | per graph: an epoch counter and the slots in use; per block: one epoch per slot | `NewMarker`, `EraseMarker`, `SetMarker`, `ResetMarker`, `IsMarked` | a mark lasts until it is reset, and a fresh marker marks nothing |
| RPO (`pass/rpo`) | recursion stack, result vector | the recursive visit | lists each reachable block once, the entry first |
| DomTreeSlow (`pass/dom_tree_slow`) | the dominators of each block; blocks that are unbound for the moment | unbind, rerun RPO, compare, bind | dominators exact; no stale order is left marked valid |
| DomTreeFast (`pass/dom_tree_fast`) | the forest of Lengauer and Tarjan: parent, ancestor, label, semidominator, bucket, immediate dominator | preorder visit, `compress`, `eval`, `link` | semidominators and immediate dominators exact |
| LoopAnalyzer (`pass/loop_analyzer`, `ir/loop.h`) | Loop objects with blocks, inner loops and owner; the loop of each block | back edges, `PopulateLoops`, `BuildLoopTree` | the tree is the inclusion of the natural loops |
| LinearOrder (`pass/linear_order`) | the order; inverted conditions | layout of blocks and loops, `FixFalseBranchOrder`, `CheckFalseBranchOrder` | every block once, outermost and innermost loops without a gap, branches consistent with their successors |
| LivenessAnalysis (`pass/liveness_analysis`) | numbers of instructions, live sets, one interval per value | numbering, one backward pass | an interval covers all points at which the value is live |
| RegAlloc (`pass/reg_alloc`) | pending and active intervals, register bitmap, slot counter, locations | expiry, reservation, spilling | overlapping intervals never share a place |
| ConstFolding, Peephole, DCE (`pass/const_folding`, `pass/peephole`, `pass/dce`) | instructions, lists of users, marks | visitors per opcode; mark and sweep | inputs of kept instructions are kept; results are unchanged |
| CheckElimination (`pass/check_elimination`) | lists of users, which it walks and changes | the walk over the users of a check's input | exactly the checks that an equal one precedes on every path are deleted |
| Inlining (`pass/inlining`) | the blocks, lists and users of two graphs | arguments, returns, constants, splitting and moving of blocks, edges | the caller is one closed graph that computes what caller and callee computed |
| PassManager (`pass/pass_manager.h`) | one validity bit per pass | `RunPass`, `SetPassValidity` | no pass reads a result that no longer describes the graph |

Components interact through shared state and direct calls: passes share the markers of a graph and the blocks'
`loop_`, `dominators_` and `idom_`; the transformations share the lists of users; the validity bits decide whether an
analysis is run again or its old result is read.

## 2. What is hard

There are no threads, no messages and nothing that is stored, so there are no races, losses or crashes to recover
from. What is hard is that state of one pass is read by another:

- *stale state*: epochs written for an earlier marker, orders computed while a block was unbound, an order that is
  still valid when the graph has been inlined into, `loop_` overwritten by a later back edge, lists of users that no
  longer agree with inputs, the target of an inverted jump, a list that is changed or erased while it is walked, a field
  read from a deleted instruction;
- *order*: intervals must expire before registers are given, loops must be populated from the inside out, labels be
  compared before the path is shortened, blocks be laid out so that one backward pass sees uses before definitions,
  returns be collected before the parameters vanish;
- *limits*: marker slots and epochs, the register bitmap, slots on the stack, the width of integers and shifts;
- *partial failure*: a rewrite that has happened when the next case is tried, null pointers on shapes of graphs that
  no test builds, assertions that fail on legal graphs.

`PROJECT.json` lists each hazard at its line with the properties that watch it.

## 3. Modules and code

| module | models | state and actions in the code's terms |
|---|---|---|
| `Placement` | nothing directly: the promise of a register allocator | `Put`, `Displace`: an interval gets a place, or takes a register from one that moves to the stack for good |
| `RegAlloc` | `pass/reg_alloc.cpp` | `PrepareIntervals`; then one iteration of `LinearScan` per step, expiry included: `Allocate`, `SpillActive`, `SpillCurrent`. Ties of `std::sort` are a free choice |
| `Markers` | `ir/marker.h` and the way passes and inlining use it | one action per operation; `MoveBlock` is what inlining does; `LeakMarker` is a pass that never erases its marker; entries start with any value of `Garbage` |
| `ControlFlow` | graphs that `GraphBuilder` makes | reference notions too: reachability, dominance, natural loops, each by its definition and not by an algorithm |
| `RPO` | `pass/rpo.cpp` | the recursion as a stack of frames; one successor or one return per step; one block may be unbound |
| `Orders` | the result of `pass/rpo.cpp` as a function | used by the later passes; `MatchesReference` (in `RPO`) says that the pass computes it. A recursive call is a level: `visit[n]` is a call that others may nest in n deep, and a call that goes on marks a block, so as many levels as blocks are all there are |
| `DomTreeSlow` | `pass/dom_tree_slow.cpp` | `Unbind`, `Rerun`, `Bind` per block, the validity bit of RPO, one epoch per rerun; `size` is the number of blocks the graph has, out of the `N` it may come to have; history variables keep the graphs that the two orders were made of and the one that is analysed |
| `Passes` | `pass/pass_manager.h`, and every pass as the manager sees it | extends `DomTreeSlow`; a call stack of passes, each with the rest of its script: passes it runs, markers it takes and erases, rewriting, bits it resets, sweeping, calls it inlines; `Request` is a client. `InlineCall` splits the block of a call, adds the blocks of any callee and a new one, and leaves every bit as it is; of a graph only blocks and edges exist here, `sites` are the blocks with a call. Assumed: the calls are fit for inlining (`Unfit`, section 4) and no pass was run on the callees |
| `DomTreeFast` | `pass/dom_tree_fast.cpp`, `Graph::CheckDominance` | the iterations of its loops; `Crash` is the null pointer of a predecessor the visit has not numbered |
| `LoopAnalyzer` | `pass/loop_analyzer.cpp`, `ir/loop.h` | the visit in one step, one block of `PopulateLoops` or `BuildLoopTree` per step; `ProccessEdge` and `LoopSearch` are levels as in `Orders`; the dominance query is the strict dominance that `DomTreeFast` is shown to compute |
| `LinearOrder` | `pass/linear_order.cpp` | extends `LoopAnalyzer`; one block of the reverse post-order per step, a whole loop included (`ProccessLoop` is levels, as in `Orders`: the header of a loop dominates the headers of the loops it calls for); `status` says which assertion failed or that nothing was dereferenced |
| `Liveness` | `pass/liveness_analysis.cpp`, `ir/liveness_info.h` | extends `LinearOrder`; the backward pass, one block per step; the live set and the intervals, which do not depend on it, are folded separately. `Defined` is what a program satisfies: inputs exist, and one of the same block comes first, phis apart |
| `Instructions` | inputs and users in `ir/inst.*`, `BuildDFG` | operators on a record of all instructions; `status` says that an assertion failed, a null pointer was used or an element taken from an empty list |
| `BlockList` | `ir/basic_block.*`, the destructor of an instruction, `BasicBlockBuilder` | extends `Instructions`; operators on next, prev, first and last; a deleted instruction keeps its fields, since `delete` overwrites only the start of the object |
| `Rewrite` | `pass/const_folding.cpp`, `pass/peephole.cpp`, `pass/dce.cpp` | extends `Instructions`; one visited instruction per step, then dead code elimination; integers have `W` bits; a shift that C++ leaves undefined yields any value |
| `CheckElimination` | `pass/check_elimination.cpp`, `CheckDominance` of instructions | extends `DomTreeFast`, uses `BlockList`; one user looked at per step; the memory of the list that is walked is a variable of its own, since the walk ends where the list ended at first. `CheckSpec` takes any program `Built`, as the builder leaves it: lists linked in ascending order, users exact, each once |
| `Inlining` | `pass/inlining.cpp`, `AddBasicBlock`, `Clear`, the edges of blocks | extends `Execution`; one argument, or one loop of `InlineStaticMethod`, per step; `RunPassImpl` goes on with the next pointer of the deleted call; `RemoveReturn` looks at the last instruction of a block again once the return is gone |
| `Execution` | nothing: what a program computes, as a term | extends `BlockList`; the reference for `Inlining` |

`MC*` modules give the inputs of the runs: `MCGraphs` and `MCChains` are sets of graphs; `MCLiveness` puts one value
with its uses into such graphs; `MCRewrite` builds straight-line programs; `MCInlining` callers and callees;
`MCDomTreeFast` three checks in a few graphs; `MCDomTreeSlow` clients that want some passes, and graphs with and
without a call. `*Proofs` modules hold the theorems.

Composition: `LoopAnalyzer`, `LinearOrder` and `Liveness` extend one another, so that a run of `Liveness` runs the
three passes in the code's order on the same state. `CheckElimination` runs on the dominator tree that the steps of
`DomTreeFast` have built, and `Passes` on the validity bit and the blocks that the steps of `DomTreeSlow` change. The
other boundaries are crossed by a property on one side and a definition on the other: `RPO` computes `Orders`, and
reaches `Reach`, which `DomTreeSlow` uses; `DomTreeFast`'s query is strict dominance, which `LoopAnalyzer` uses;
`RegAlloc` takes any intervals that `Liveness` could produce. The two abstract specifications are `Placement`, which
`RegAlloc` implements (`Abstract == INSTANCE Placement WITH NoPlace <- NoPlace, place <- place`), and `Execution`.

Some operators are commented as a *fault variant*. They are no part of the model: each is a plausible error in the
operator that stands after it (a dropped guard, an index off by one, a missing reset), and putting it in that
operator's place must make TLC report a violation. `PROJECT.json` has one such pair for every property of every run,
so no property holds whatever the code does.

## 4. Runs and bounds

All runs enumerate every input of a kind and every interleaving or free choice; none is sampled.

| run | inputs | what it shows |
|---|---|---|
| `reg_alloc` | four intervals with all ends in 0..4, 0 to 3 registers | no two overlapping intervals share a place; the bitmap is the set of active registers; an interval is spilled only under pressure; slots are dense; the scan implements `Placement` |
| `markers` | two graphs, two blocks, two slots, epochs up to 4, garbage 0 and 1 | marks last; none of a graph's own old epochs is taken for a mark |
| `rpo` | all graphs of four blocks, all bound or one unbound | exactly the reachable blocks, each once, the entry first; an edge goes backward only on a cycle; the pass ends; the result is `Orders` |
| `dom_tree_slow` | all graphs of four blocks with clients that run `DomTreeSlow` and `RPO` in either order when few epochs are left; three graphs with clients that run all passes but `Inlining` in any order; all graphs of one or two blocks with a call, with clients that run `Inlining` and five more in any order | dominators exact, of the graph that the analysis found; a valid order is never one with a hole, and one of an earlier graph only where `Inlining` has begun and no full run of `DomTreeSlow` has ended since; what is rewritten is swept, though DCE was valid; `NewMarker` fails only when the costs of the passes come to the limit, however they run each other, and never for want of a slot |
| `dom_tree_fast` | graphs of five blocks whose entry branches and is not entered again; three checks placed in seven of them, one with unreachable blocks | `eval` finds the minimum after any compressions; semidominators exact; the query is strict dominance; a crash needs an edge from an unreachable block; exactly the redundant checks are deleted; users still agree; why the pass stops |
| `liveness` | all connected graphs of four blocks with at most six edges, the entry's successors ascending; 25 nests of three loops, left from headers, sources or both, with every single use of a value; in chains of four blocks one value, all places of its definition, uses and phi; blocks bared to phis or nothing | collected bodies are natural loops; no loop has two owners; the tree is right where loops are structured; no block is lost or repeated; a loop ends with its source, and an outermost or innermost one has no gap; branches fall through into their false successors; live sets sound; intervals cover liveness under the conditions that make one pass enough; who crashes |
| `rewrite` | a parameter, two constants, two operations and a last instruction, in one block or two; `W` = 3 | which inputs survive; the value of the last instruction; why a rewrite stops the program |
| `inlining` | callees of one to four blocks with branches, a join, a loop, several returns, throws, a throw before a return, bare returns; callers of one to three blocks with one call or two, of one callee or two | the caller is one closed graph; the lists are whole; users agree with inputs; the program computes what it did; a stop needs an unfit call |

and four runs that end in a violation, section 5.

Why the bounds are enough for the interesting cases:

- *Registers.* A spill of an active interval followed by an expiry that depends on the new order of the active list
  takes three registers at most and four intervals; ends in 0..4 give all ways four half-open intervals can touch,
  nest and cross.
- *Markers.* Two slots are a leaked one and a free one; two graphs with the same epoch are what confuses a block that
  moves; four epochs let every slot be used twice.
- *Graphs.* Four blocks have two nested loops, loops that share a header, irreducible cycles, triangles, diamonds
  inside a loop, unreachable blocks. Block numbers play no part in a visit beyond the order of the successors, so
  listing them in ascending order (`SortedCfgs`) still meets the blocks in all orders up to renaming. Five blocks
  are the least with a dominator that is deferred to step 4 of the fast analysis and a path compressed twice; to keep
  that run small its entry branches and has no predecessor.
- *Epochs and slots.* Both have the code's values, 16 and 4. For graphs of four blocks the quadratic analysis takes up
  to four epochs and a new order afterwards one more, so the run starts in the life of the graph where some analyses still fit and others do not; the three
  graphs shared by all passes (a diamond, nested loops, two loops in a row) start early and in the middle too.
  A graph of one or two blocks with a call grows to at most four: an order of it can then be older than the graph, and
  the other passes run before, after and on both sides of `Inlining`, with any callee of one or two blocks.
- *Checks.* Two that could be deleted in favour of each other and a third that decides it; operands in both orders;
  a check of a value with itself or with another value. The seven graphs are numbered with and against their dominator
  tree, since the pass visits blocks by their numbers, and one has blocks that no path leads to, which no block is said to dominate.
  The program is written when the dominators are known, since nothing before depends on it.
- *Liveness.* One value suffices, since the analysis treats values independently. In chains, branches forward skip
  one block and branches back go anywhere, in both orders of the successors. Six blocks are the least with three nested
  loops, because in structured loops no block is header or source of two. They matter: `ProccessLoop` calls itself for
  every header it meets in the list of a loop, not only for those of the next level, and that list can hold the
  innermost header before the one around it. The innermost loop is then laid out too early and the loop between is torn
  apart, so `LoopsContiguous` claims less of it. Six edges leave two blocks of four without a second successor.
- *Integers.* With three bits, -4..3, shifts may be negative, in range or too large, and constants 0, -1, 1 and 2
  select every case of the peephole.
- *Inlining.* The loops of the code meet two arguments, equal or not, and no, one or two returns, successors of the
  call block, and instructions behind the call. `Fuel` bounds the blocks and calls that `Execution` enters, so a loop is followed
  a few times; a run that is longer than that before inlining is not compared.

Fairness is assumed in one place: `RPO!Spec` has `WF_vars(Step)` for `Terminates`. The visit is a single thread that
nothing else stops, so a step that is enabled is taken. The other specifications are safety only, and every run but
`markers` checks deadlock: a pass that could not go on before its end would be reported. `markers` stops where its
epochs or slots have run out for all graphs, or an assertion has failed.

Conditions in properties. Several properties hold under a condition that the code does not check. Each is there
because TLC finds a counterexample without it, so it marks the border of what the code achieves:

- `Structured`: every header has one back edge, and it starts in no inner loop. Without it the loop tree is wrong
  (section 5), and the layout with it.
- `ForwardLayout`, `NoSelfEdges`, `PhiInputsLocal` in `IntervalsCoverLiveness`: the layout is topological but for back
  edges; no block branches to itself; a phi takes from a predecessor what that predecessor defines. The analysis
  makes one pass and extends loops by their back edge; a self edge is no back edge for it; it keeps a phi's input
  alive only in the block that defines it. `UsesDominated`, that definitions dominate their uses, holds of every program
  of the run and is there for the proof, which speaks of all programs: a value that is read where it was never defined
  need not have its definition first in the order.
- `InputsAlive` excludes three kinds of instructions whose inputs may be deleted: those that use one value twice,
  calls and NOTs, and the result of combining two constants. `ValuesKept` excludes programs that shift a shifted
  value: `shr (shl x a) a` loses high bits and two amounts may exceed the width.
- `ValidMeansFresh` and `DominatorsExact`: where `Inlining` has begun a valid order may be of an earlier graph (section
  5). The first then claims that it is the order of that graph, and claims the present one again when `DomTreeSlow` has
  been over all blocks. The second is about the graph that the analysis found, for the blocks that the order it was
  given reached; every other block has the entry as its only dominator.
- `GraphClosed` allows an edge that exists twice, from a callee's block that throws right before it returns
  (`ThrowReturns`).
- `ProperChecks`: no check compares a value with itself; such a check is removed from one list twice.
- In `UsersAgree` and `SameMeaning`: `CalledOnce`, no callee is called twice, since its blocks are gone after the first
  call; `Substitutable`, no instruction uses a result or a parameter twice, since `SubstituteInput` replaces one use;
  `Proper`, a callee whose result is used returns one. In `SameMeaning` moreover `PhisApart`, no phi takes a value that
  is substituted or names a block with a call, and `LocalValues`, of several results each is defined in the block that
  returns it: the phi that is made of them, like a phi whose input is substituted, names the block of the value and not
  the block that the edge comes from.
- `Unfit` in `StopsExplained` lists the calls at which inlining stops: a callee that is called twice, an argument passed
  twice, a block with nothing but its return, a first block with nothing but parameters and constants, returns with and
  without a value, or a throw in another block that comes before the only return.

## 5. Disagreements found

Each of these four is a run that ends in a violation, with a finding in `PROJECT.json`; 1, 3 and 4 were also
reproduced with the compiled program.

1. **The loop tree falls apart** (`loop_analyzer_tree`). `ProccessEdge` writes `loop_` of a back edge's source as
   well as of its header (`pass/loop_analyzer.cpp:31-32`). When the outer loop's back edge starts in the inner loop,
   each loop becomes the other's inner loop and neither hangs under the root.
2. **An inverted jump keeps its target** (`linear_order_target`). `FixFalseBranchOrder` swaps the successors and
   inverts the opcode (`pass/linear_order.cpp:61-62`), but `target_bb_` stays: the jump goes where it should fall
   through.
3. **A value dies before its last use** (`liveness_last_use`). An if-then inside a loop is laid out with the then-block
   before its branch; the backward pass meets the branch first and ends the interval right after the definition.
4. **A NOT disappears from the users of its input** (`rewrite_not`). The xor is removed from the list twice;
   `RemoveUser` does not notice that the second time it is not there and drops the last user. If the NOT was the
   only one, dead code elimination deletes the value that it reads.

Others met on the way are part of the conditions above, or of both `StopsExplained`, `CheckStopsExplained`,
`StopsOnlyWhenExhausted`, `CrashExplained`, `NeedsAnInstruction` and `CrashMeansDeadPredecessor`, which say under which
conditions a pass stops:

- `Graph::CheckDominance` is irreflexive (`ir/graph.cpp:50`), so an edge from a block to itself makes no loop.
- The assertion of `CheckFalseBranchOrder` (`pass/linear_order.cpp:80`) fails on a triangle whose join is the false
  successor; a false successor that is the header of a loop need not follow its branch (`pass/linear_order.cpp:79`);
  an entry that is a branch's successor has the pass read `back()` of an empty list.
  No property characterises the graphs that fail the assertion; `BranchesFallThrough` is about the others.
- `Inlining` adds blocks and edges and resets no validity bit (`pass/inlining.cpp:126-152`). If RPO was valid, `RunPass`
  returns at once from then on (`pass/pass_manager.h:41`), and the order of the graph before is what later passes read.
  `DomTreeSlow` takes its initial order from it too: the added blocks, which that order does not hold, end up with no
  dominator but the entry. Its own unbinding resets the bit, so that a pass after it has the right order again.
- A graph of 16 blocks exhausts the epochs in `DomTreeSlow` (`ir/marker.h:23`). `LinearOrder` never erases its marker
  (`pass/linear_order.cpp:10`); since it runs once, three of the four slots stay free and no pass needs more.
- The liveness analysis runs off a block that holds only phis (`pass/liveness_analysis.cpp:66`).
- An instruction that uses a value twice keeps the deleted one after a substitution (`ir/inst.cpp:114`); two
  subtractions combined into one leave the new input without its user (`pass/peephole.cpp:112`); a case is tried after
  an earlier one has replaced the instruction (`pass/peephole.cpp:52`), which fails an assertion or follows a null
  pointer.
- A check that two equal checks of other blocks dominate is deleted twice (`pass/check_elimination.cpp:23`): the walk
  over the users goes on after the first deletion, with the deleted check.
- After a call is inlined the walk goes on at the deleted call's next pointer, which is null: a second call behind it
  in the same block stays (`pass/inlining.cpp`). The new block does not know its last instruction
  (`ir/basic_block.h:63`). A block with nothing but its return leaves a null pointer behind. A block with a throw right
  before its return is linked to the new block twice, since its last instruction is looked at again when the return is
  gone (`pass/inlining.cpp:98`).

## 6. Proofs

All are checked by TLAPS for every value of the constants, and every leaf by SMT, Zenon or LS4. They have the form
`Init => IInv`, `IInv /\ [Next]_vars => IInv'`, `IInv => property`.

**`RegAllocProofs`** assumes that the set of intervals is finite (`IntervalAssumption`) and that the bounds are
numbers (`BoundAssumption`).
`IInv` adds to the checked invariants `Phases`, `Sorted` (what was placed starts no later than what is pending) and
`Holders` (active intervals hold registers, and there are at most as many as registers; a pending one was never
spilled; one that left the active list with its register ends before any pending one starts). `NoSharing` alone is not
inductive: that a reserved register is free of overlaps follows only from knowing that whoever held it and is no longer
active ends before any pending interval starts (`Expiry`); that the lowest clear bit is below the register count needs
a counting argument (`LowestFreeIsRegister`). Theorems: `TypeCorrect`, `NeverShared`, `BitmapExact`, `SlotsExact`,
`Implements`, the refinement of `Placement` (each step of the scan is a `Put`, a `Displace` or a stutter), and
`SpillsJustified`. For the last, `Justified(i, p)` says that point p speaks for the spill of i, and `Pressed` that every
spilled interval has such a point that the scan has already reached. Being reached is what makes it inductive: an
interval placed later covers p only if it starts at p, and then all registers are held by intervals that cover p: either
it is spilled too, or it takes a register from one that ends no earlier (`Turnover` is one iteration of the scan), so that
what is in registers at p never ends later than before. That the pressure exceeds the register count is a count again: the full active list and the new interval.

**`MarkersProofs`** assumes `SizeAssumption`, `GarbageAssumption` and `NobodyAssumption` (the value "nobody" of the
history variable is no graph). `IInv` adds `HeldDistinct`
(held markers use different slots, all in use), `WrittenPast` (what a graph wrote is no larger than its epoch),
`MarkedWritten` (what is marked was written by this graph and not overwritten) and `WrittenMarked` (the converse for
held markers), for both directions of "marked". Theorems: `TypeCorrect`, `MarksLast`, `NothingStale`.

**`RPOProofs`** assumes only that there is a block (`SizeAssumption`). `IInv` adds `Phases`, `OnlyReached` (every closed
set holds the visited blocks), `Partition` (the visited blocks are those on the stack and those in the result, each
once), `Explored` (the successors of a block before the frame's index, and all of a finished block, are visited) and
`EntryLast`. With an empty stack the visited set is closed, hence it is the least closed set. `OrderInv` adds `OnPath` (every call was
made on a path from the calls below it) and `Ordered` (a successor of a finished block has finished before it or reaches
it). Theorems: `TypeCorrect`, `NeverRepeats`, `ReachesExactly`, `BackwardClosesCycle`.
The last part is that the pass computes the function of `Orders`, which the models of all later passes start from
(`OrderIsReference`). On a complete graph, `Reference` gives for every call on the stack the state in which it will be the
innermost one (`Resumes`): what the call above makes of the state when it visits the successors it has left and pushes its block
(`Completed`); the first of these states is the result of the function. Frame n is a call of level N + 1 - n, and there is a
level for it because the blocks on the stack are distinct (`DepthBound`).

**`PassesProofs`** is about `DomTreeSlow` first and assumes `SizeAssumption` for it. `IInv` adds `Turns` (exactly the
block whose turn it is may be out of the graph, and the order that `Bind` reads is the one without it), `Lists`: at any
moment block b lists `Listed(b)`, the entry if its own turn has begun and the blocks before `bb` that dominate it, if
the initial order reached it; and `Order`: a valid order is the one of some graph, `ordered`, and it is `Behind` the
graph neither between the two resets of a turn nor after a loop over all the blocks. That the difference of two orders
is a set of dominated blocks is `LostIsDominated`, from the definition of dominance by reachability; that the order
which is subtracted is of the graph at hand is what `Order` says of a turn. Theorems: `ComputesDominators`, and for `Spec`, where
nothing but RPO runs beside the analysis, `NeverStale`: then no order is ever behind (`Alone`).

Its second part is about `PassSpec`: a client runs any passes in any order, `Inlining` among them, for any number of
epochs and any number of slots from three on (`SlotsAssumption`, what the deepest nesting of passes needs; the code has
four). It reuses each step lemma of the first part. The step that it adds is `InlineCall`: with any callee the graph
stays one (`SplitCfg`), and whatever is known of the order remains known of the graph it was made of (`Inlined`).
`Managed` adds that a block is out of the graph only while the running pass is `DomTreeSlow`, so that no other pass can
order the blocks meanwhile nor `Inlining` add any (`Holes`), that a pass has only the sweep left to
ask for when it has rewritten (`Finishing`, of every call on the stack), and `Sweeping`: what has been rewritten is about
to be swept by the running pass, or by a DCE that the running pass will run and whose bit is not set. The last clause is
what the reset of the bit achieves. Theorems: `DominatorsStay`, `AllSwept`.
`OrdersFresh` and `NeverExhausted` need an account of what the passes have done. `MarkersInv` says that what is left of
a script determines the markers that its call holds (`Held`) and may still take (`Owed`); that the calls on the stack
are none of them valid and get simpler inwards, and that only the innermost one holds markers (`Nested`), so that the
slots in use are its own and the one that `LinearOrder` leaks; that the epochs used are at most those the graph had used
before and what the begun passes have spent of their cost (`Charged`, summed by `Total`, which `SumIsTotal` ties to the
property; what `DomTreeSlow` has spent, `SlowSpent`, depends on the blocks that it went over and on the order that it
found); and that nothing was done by a pass that has not begun (`Started`): no order is behind before `Inlining`. Each
step pays for the epoch that it takes from what its call owes.

**`ControlFlowProofs`** gives what the next proofs need in place of induction theorems, which take operators: a set
of numbers has a least element, also by a measure (`LeastMeasure`), and a function defined by recursion exists if its
value depends only on values of smaller measure (`RecursionExists`). With it a `LET f[x \in S] == ...` of the models can
be unfolded. Then come lemmas on lists of successors and predecessors (`SuccSeq`, `PredsFacts`), on reachability
(`ReachLeast`: what the levels of `ReachFrom` end with is closed, so it is the least closed set; `ReachOn`, `ReachStep`, `ReachTrans`), on
dominance and natural loops in any graph (the dominators of a block are a chain, `DominatesChain`; a header dominates its
loop, `HeaderDominates`; two loops with different headers that meet are nested, `LoopsNest`), on a loop that visits the members of a list in turn (`EachOfKeeps`: what every
visit keeps, all keep; `EachOfBrings` and `EachOfFirst`: what the visit of a member brings and the others keep, holds at the end;
`EachOfNext`: the first member is visited first), and on levels of calls: `LevelsExist`, `LevelsKeep` (what holds of the lowest
level and of a level that calls a right one, holds of all) and `PostOrderLevels`, which unfolds those of `Orders`.

**`DomTreeFastProofs`** proves the algorithm of Lengauer and Tarjan, for every graph (`SizeAssumption` is all it assumes).
The first half speaks of graphs only. `Up(p, b)` are the ancestors of b in a tree given by parents, `Tree` and
`DepthFirst` what the visit maintains (an edge to a higher number goes down the tree, subtrees have no gaps in their
numbers), `Spanning` what it ends with, and `Sd` the semidominator by its definition with paths. A path above k hands on
the ancestor of small semidominator (`HitSpread`); hence `SdBelow`, which is the equation that step 2 computes, and
`SdAncestor`. `DominatorsUp` reads the strict dominators off the tree: an ancestor d of b dominates it if no ancestor of b
below d has a semidominator above d. `DominatorIsSemi` and `DominatorIsShared` are the two cases of step 3.
The second half is the analysis. `IInv` has these parts: `Visit` with `Frames` (the stack is a chain of the tree whose
nodes have the unvisited successors still before them), `Forest` (`Best`: the label of a linked node has the least
semidominator number on the way up to its ancestor, whichever paths were compressed), `Semis` (step 2 is over for the
linked nodes, and for the node at hand as far as its predecessors were taken), `Buckets` (a linked node waits in the bucket of
its semidominator until the loop has come to the child of the semidominator above it, or else is `Deferred`: its dominator
or an ancestor with the same dominator is recorded), `Finishing` for step 4, and `Finished`. That compression keeps `Best`
is `CompressKeeps`; the recursive calls are unfolded along `Height`. Theorems: `EvalIsRight`, `SemidominatorsRight`,
`QueriesRight`, `CrashesExplained`. `LoopAnalyzer` and `CheckElimination` build on the third of them.
The third part is the elimination of checks, for every graph and every program that is `Built`. First the lists: `FromFacts`,
a walk along `next_` meets the rest of the block and nothing else; `RemoveUserFacts` with `FilledOut`, a user taken out of an injective
list leaves one with the others, whose order changes; `DestroyLinks`, unlinking an instruction keeps `ListsLinked` for the rest and
leaves the `next_` of the deleted one as it was, which is what the pass reads afterwards. Then `CoversTrans`: that an equal check precedes
another on every path is transitive, since the dominators of a dominator are dominators (`DominatorsNest`). `CheckInv`
holds the types, `DominatorsFirst` (`IInv` until the dominators are known, then chains that are the strict dominators) and
`CheckStopsExplained` for all programs, and for those whose checks compare different values (`ProperChecks`): `Intact` (no failure, `ListsLinked`,
`UsersKnown`; `Covered`, a kept check covers each deleted one; `Settled`, no kept check covers a kept one that was passed), and for the walk
`StillThere` or `JustDeleted`. `JustDeleted` is needed since the walk goes on over memory that no longer is the list: what it still reads is kept or
the deleted check itself, and the check that covers it was left behind. Hence a second
deletion is because of another check, and both are in other blocks (`DeleteTwice`): the second because a deleted check is in no list any
more, and the first because otherwise the second, which dominates their block, would have had it deleted when the pass was there. What a check
covered is covered, when that check is deleted, by the one it is deleted for (`CoversTrans`). Theorems:
`CheckInvariant`, `EliminationExact`, `EliminationKeepsUsers`, `EliminationStops`. That `Load`, which `MCDomTreeFast` uses, leaves every
program `Built` is induction over data; TLC confirms it for the programs of the run (`ProgramsAreBuilt`).

**`LoopAnalyzerProofs`** assumes `SizeAssumption` alone: the graph is any whose unreachable blocks have no edge into
the others, reducible or not. `LoopInv` has these parts: `Typed`; `LoopsExist` (`loop_` names a loop that was created, and
never the root); `Owned`, which is `OwnedOnce` at every moment; every loop is a back edge; every loop has no blocks yet
or those of its natural loop (`Body`: each once, the source first, the header last); and `Phase`. A level of a
recursion is right if the one below is, for the states that leave it few enough blocks to mark. For `ProccessEdge` the
claim is that it only adds loops that are back edges, which needs that calls go along edges from reachable blocks. For
`LoopSearch` it is `SearchRight`: what is marked is the header or reaches the source without it (`Good`), what is new among the
marked blocks has its predecessors marked, and no list but the one of the loop at hand grows; `Adopts` is what keeps
`Owned`. At the end the unmarked blocks are closed under successors other than the header, so none of them reaches the
source, and nothing of the natural loop is missing (`BodyIsNatural`). `PostOrderFacts` says of the levels of `Orders` that
they list the reachable blocks, none twice, the entry last, and a block before each block that dominates it: the first part
keeps a header from being populated a second time, the second is `HeadersCollected`, that every header which `loop_` names has its blocks
in the end. Theorems: `LoopsAreNatural`, `LoopsOwnedOnce`, `LoopsAreBackEdges`.
`TreeInv` is the second invariant, the account of which loops `loop_` names. For every graph it says that there is
exactly one loop per back edge (`Matched`: the visit follows every edge once, and a header is still active when its source is
reached, `DominatorsActive`). For structured graphs it says that `loop_` names the least loop around a block whose blocks were
collected, or the loop that the block is an end of (`Innermost`); that a loop hangs under the least loop around it as soon as that one was
collected (`Hanging`), and under the root only if none is around it (`UnderRoot`). `InOrder`, what a block dominates comes
before it in the reversed order, makes `PopulateLoops` collect inner loops first (`NextIsInnermost`); this is where structure is
needed, since the ends of nested loops are then distinct blocks. Theorems: `TreeInvariant`, `LoopPerBackEdge`, `LoopTreeIsInclusion`.

**`LayoutProofs`** assumes no more, and goes on from `LoopInv` to the layout and the liveness analysis. `LayoutInv` is
`LoopInv` until the analysis is done; then `LoopsReady`, what of it the layout needs, `Laid` (what was placed: reachable
blocks, none twice, the entry first, and every false successor outside the loops directly after its branch) and
`Progress` (while nothing failed, what was placed and what is still to come are all reachable blocks). Inside one step
these are claims about `LayoutKept`, the states of the layout whose graph has the same edges as before (`SameEdges`:
inverting a condition only swaps two successors), and `LaidSince`: nothing is taken out again and no failure forgotten. A
level of `ProccessLoop` is right (`ProcessRight`) if it stays inside `LaidSince`. That the walk loses no block rests on
`TakeLoopFirst`: called at a header, `ProccessLoop` comes by the header first and places it, because `HeadersCollected` and
`Body` put the header at the end of the list that is walked backwards. `FirstIsRoot`, that only the entry can be placed
first, is what `CrashExplained` needs. `FalseFollows` survives inversions because the two are kept apart: a condition is inverted only
when its new false successor is in a loop.
`NestedInv` is the second invariant, about structured graphs: `LoopsNested`, what `TreeInv` leaves behind; `HeadersFirst`,
the reverse post-order has a header before its loop, since headers dominate their loops; `Saturated`, between
two blocks of the reverse post-order a loop was placed as a whole or not at all; `Settled`, a loop of which a block of its own was placed
is complete, the source last, and without a gap if it is outermost or innermost; and `TrueTurned`. `Settled` and not
`Saturated` is what holds inside a call, where the lists of loops in between may bring an inner loop too early. The
recursion is settled by the number of blocks (`ProccessLoopNested`): the loops that a call can reach inside its own have fewer, so a
call nested n deep is right for loops of n blocks if each block of its list is (`Visited`, `TakeBlockVisited`), and a body has at most N.
`ScanInv` adds to `LayoutInv` that the blocks scanned are not bare and that the live
sets are sound; inside a block `LiveAtStartFacts` follows the scan instruction by instruction.
`CoverInv` adds what the scan leaves behind: the ranges of the blocks follow one another in the order and the numbers ascend
inside them (`Numbered`); a scanned block is covered as far as the live sets tell (`BlockCovered`: to its end what a successor
scanned before has live, to its number what an instruction uses, to the end of the loop what is live in a header), and its own
live set misses nothing that those tell (`BlockFlows`). The scan only grows an interval (`Grown`), but for the start of
what the block at hand defines. These are claims about what one pass computes. That they add up to liveness along
paths of any length is an argument about the layout (`Scanned`): a block comes after what dominates it (`DominatorBefore`), so
every use comes after the definition; an edge that leads backwards closes a loop (`BackwardEdge`). Hence a live value
is missed only inside a loop whose header has it (`EntersInLive`, by closure under predecessors and not by induction over
paths), and that header extends it to the source, after which no block of the loop is placed (`Settled`). Theorems:
`EveryBlockIsPlacedOnce`, `CrashesAreExplained`, `LoopsStayTogether`, `BranchesAreTurned`, `LiveSetsAreSound`,
`BareBlocksAreFatal`, `CoverInvariant`, `IntervalsCover`.

Only model-checked:

- `Terminates` (liveness is out of the prover's reach);
- `Rewrite` and `Inlining`, which reach recursive operators and `Bitwise`.

## 7. What is not modelled

- *Destruction*: `GraphDestroyer`, `BasicBlockDestroyer`, `~Graph` and `~Loop` come after the state that the properties
  speak of. The destructor of an instruction, which passes run, is in `BlockList`.
- *Dumps, look-up by id, casts, accessor macros, error exit*: printing and plain reads. `RemoveInput` of a phi has no caller.
- *The size of a block*: `LinearOrder` reads it to see whether a block that branches is empty, which is what the model
  says directly. The destructor of an instruction does not adjust it (`ir/inst.cpp:25`), but what a pass deletes
  that way are checks, and a block that branches also has its jump.
- `PassManager::GetPassIndex` has no return statement; the models assume that it gives the index its helper computes,
  which is what the unoptimised build does.
- `UNREACHABLE` only prints, so what `NewMarker` returns without a free slot is undefined; `Passes` shows that it does
  not happen with the passes there are, and stops there.
- In `Passes`: calls at which `Inlining` stops, and callees on which passes were run before (their blocks would bring
  marks, which is in `Markers`, and results of passes); an edge that is made twice, which counts once there since orders
  and dominators do not depend on it; the crash of `DomTreeFast`, which is in its own module; which loops `PopulateLoops` searches (any number up to that of the headers, which allows more than the
  code does).
- In `Rewrite`: phis as users, and the pointers of block lists, which its passes only unlink.

## 8. Plan

The most important behaviour first: the allocator and its promise, the markers all passes rely on, then the analyses in
the order in which they build on each other, then the rewrites, the manager, inlining and check elimination. That is
done. What would come next:

1. *Phi users in `Rewrite`*, with programs of three blocks.
2. *Proofs about users in `Rewrite` and `Inlining`*, for which the recursive operators and `Bitwise` would have to move to modules
   that only the runs use; the facts about lists in `DomTreeFastProofs` are what they would build on.

## 9. Running it

In this directory, `tlc -config <cfg> <module>` with the pairs in `PROJECT.json` "runs", for example
`tlc -config RegAlloc.cfg MCRegAlloc`; a run takes from seconds to two minutes. `tlapm RegAllocProofs.tla` checks
a proof module. The community modules (SequencesExt, FiniteSetsExt, Functions, Bitwise) must be on the path.
