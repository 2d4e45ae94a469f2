------------------------------ MODULE Inlining ------------------------------
(***************************************************************************)
(* Inlining of static calls (pass/inlining.cpp): the blocks of the callee  *)
(* become blocks of the caller, between the block of the call and a new    *)
(* block with the instructions that follow it.  One step is one            *)
(* instruction looked at by RunPassImpl, one argument, or one of the loops *)
(* of InlineStaticMethod.                                                  *)
(*                                                                         *)
(* Instructions and blocks of all graphs are numbers.  Graph 1 is the      *)
(* caller.  Graph::Clear empties the list of a callee but not the memory   *)
(* behind it, and a later call of the same callee reads its first element  *)
(* there: entry keeps it.                                                  *)
(***************************************************************************)
EXTENDS Execution, FiniteSets

CONSTANT Programs   \* [insts, succs, lists]: the instructions [op, in, from,
                    \* bb, callee] and, by block, the successors; by graph,
                    \* the blocks

VARIABLES
  source,     \* the program, fixed
  ir,         \* all graphs, in a record of the fields of Load below
  blocks,     \* the blocks that RunPassImpl has not visited yet
  inst,       \* the instruction it looks at, or Null
  args,       \* the arguments of the call that are not substituted yet
  rets,       \* callee_ret_bbs
  pc          \* "visit", "arguments", "result", "returns", "constants",
              \* "split", "move", "connect", "finish" or "done"

vars == <<source, ir, blocks, inst, args, rets, pc>>
Caller == 1
Fuel   == 10      \* bound: the blocks and calls that a run of the program enters

\* GraphBuilder: the links of the blocks, the predecessors and the users.
Load(p) ==
  LET K      == DOMAIN p.insts
      B      == DOMAIN p.succs
      G      == DOMAIN p.lists
      own(b) == SelectSeq([i \in K |-> i], LAMBDA i : p.insts[i].bb = b)
      plain  == [op     |-> [i \in K |-> p.insts[i].op],
                 in     |-> [i \in K |-> p.insts[i].in],
                 from   |-> [i \in K |-> p.insts[i].from],
                 callee |-> [i \in K |-> p.insts[i].callee],
                 users  |-> [i \in K |-> <<>>],
                 next   |-> <<>>, prev |-> <<>>, bb |-> <<>>, first |-> <<>>, last |-> <<>>,
                 succs  |-> p.succs,
                 preds  |-> [b \in B |-> SelectSeq([c \in B |-> c],
                                                   LAMBDA c : b \in Range(p.succs[c]))],
                 graph  |-> [b \in B |-> CHOOSE g \in G : b \in Range(p.lists[g])],
                 lists  |-> p.lists,
                 entry  |-> [g \in G |-> p.lists[g][1]],
                 freed  |-> {},
                 status |-> "fine"]
      bound  == Bind(plain, [i \in K |-> p.insts[i].bb], [b \in B |-> own(b)])
  IN  BuildDFG(bound, FlattenSeq([b \in B |-> own(b)]))

Init == /\ source \in Programs
        /\ ir = Load(source)
        /\ blocks = source.lists[Caller]
        /\ inst = Null /\ args = <<>> /\ rets = <<>>
        /\ pc = "visit"

\* The pass goes on at next unless the program has ended.
GoTo(next) == pc' = IF Fine(ir') THEN next ELSE "done"

-----------------------------------------------------------------------------
(***************************************************************************)
(* RunPassImpl: the blocks of the caller as they were at first.            *)
(***************************************************************************)
VisitBlock == /\ pc = "visit" /\ inst = Null /\ blocks # <<>>
              /\ inst' = ir.first[Head(blocks)]
              /\ blocks' = Tail(blocks)
              /\ UNCHANGED <<source, ir, args, rets, pc>>

VisitInst == /\ pc = "visit" /\ inst # Null
             /\ IF ir.op[inst] = "CALL_STATIC"
                THEN pc' = "arguments" /\ args' = ir.in[inst] /\ UNCHANGED inst
                ELSE inst' = ir.next[inst] /\ UNCHANGED <<args, pc>>
             /\ UNCHANGED <<source, ir, blocks, rets>>

VisitEnd == /\ pc = "visit" /\ inst = Null /\ blocks = <<>>
            /\ pc' = "done"
            /\ UNCHANGED <<source, ir, blocks, inst, args, rets>>

Callee      == ir.callee[inst]
CalleeList  == ir.lists[Callee]
CalleeEntry == ir.entry[Callee]
CallBlock   == ir.bb[inst]

-----------------------------------------------------------------------------
(***************************************************************************)
(* SubstituteUsersInputsForArgs, one argument.                             *)
(***************************************************************************)
Argument ==
  /\ pc = "arguments" /\ args # <<>>
  /\ LET param == ir.first[CalleeEntry]
         arg   == Head(args)
     IN  ir' = IF param = Null THEN Stop(RemoveUser(ir, arg, inst), "null")
               ELSE PopFrontInst(SubstituteUsers(RemoveUser(ir, arg, inst), param, arg), CalleeEntry)
  /\ args' = Tail(args)
  /\ GoTo("arguments")
  /\ UNCHANGED <<source, blocks, inst, rets>>

ArgumentsDone == /\ pc = "arguments" /\ args = <<>>
                 /\ pc' = "result"
                 /\ UNCHANGED <<source, ir, blocks, inst, args, rets>>

-----------------------------------------------------------------------------
(***************************************************************************)
(* ProcessReturns.                                                         *)
(***************************************************************************)
EndOp(s, b)  == s.op[s.last[b]]
EndsIn(s, O) == SelectSeq(CalleeList, LAMBDA b : EndOp(s, b) \in O)

\* The last instructions of the blocks that return or throw.
Returns == LET ends == EndsIn(ir, {"RET", "RET_VOID", "THROW"})
           IN  [k \in DOMAIN ends |-> ir.last[ends[k]]]
Values  == SelectSeq(Returns, LAMBDA r : ir.op[r] = "RET")

NewInst(s, op) ==
  [s EXCEPT !.op = Append(@, op), !.in = Append(@, <<>>), !.from = Append(@, <<>>),
            !.callee = Append(@, Null), !.users = Append(@, <<>>), !.next = Append(@, Null),
            !.prev = Append(@, Null), !.bb = Append(@, Null)]

\* Fault variant: the phi names the block of the return as if it were the block of the call.
PhiInputCaller(s, phi, r) ==
  AddUser(AddInput(s, phi, s.in[r][1], CallBlock), s.in[r][1], phi)

\* A returned value becomes an input of the phi, from the block that defines it.
\* (RET_VOID has no input.)
PhiInput(s, phi, r) ==
  IF s.op[r] = "RET" THEN AddUser(AddInput(s, phi, s.in[r][1], s.bb[s.in[r][1]]), s.in[r][1], phi)
  ELSE IF s.op[r] = "THROW" THEN s ELSE Stop(s, "garbage")

\* The phi of several values, after the call.
PhiOfReturns ==
  LET phi  == Len(ir.op) + 1
      full == FoldLeft(LAMBDA s, r : PhiInput(s, phi, r), NewInst(ir, "PHI"), Returns)
  IN  IF ir.last[CallBlock] = inst THEN PushBackInst(full, CallBlock, phi)
      ELSE InsertInst(full, CallBlock, ir.next[inst], phi)

\* The result of the call replaces it in its users.
Result ==
  /\ pc = "result"
  /\ ir' = IF \E b \in Range(CalleeList) : ir.last[b] = Null THEN Stop(ir, "null")
           ELSE IF Len(Values) = 0 THEN ir
           ELSE IF Len(Values) > 1 THEN SubstituteUsers(PhiOfReturns, inst, Len(ir.op) + 1)
           ELSE IF ir.op[Returns[1]] # "RET" THEN Stop(ir, "garbage")
           ELSE SubstituteUsers(ir, inst, ir.in[Returns[1]][1])
  /\ GoTo("returns")
  /\ UNCHANGED <<source, blocks, inst, args, rets>>

\* Fault variant: the returned value keeps its return as a user.
PopOnly(s, b) == PopBackInst(s, b)

\* The return of one block goes.
PopReturn(s, b) ==
  LET r == s.last[b]
  IN  PopBackInst(IF s.op[r] = "RET" THEN RemoveUser(s, s.in[r][1], r) ELSE s, b)

\* A block that returns is to be linked to the new one; then its last
\* instruction is looked at again, and a throw before the return links it twice.
RemoveReturn(found, b) ==
  LET popped == IF EndOp(found.ir, b) \in {"RET", "RET_VOID"}
                THEN [ir |-> PopReturn(found.ir, b), rets |-> Append(found.rets, b)]
                ELSE found
  IN  IF ~Fine(found.ir) THEN found
      ELSE IF popped.ir.last[b] = Null THEN [popped EXCEPT !.ir = Stop(@, "null")]
      ELSE IF EndOp(popped.ir, b) = "THROW" THEN [popped EXCEPT !.rets = Append(@, b)]
      ELSE popped

RemoveReturns ==
  /\ pc = "returns"
  /\ LET found == FoldLeft(RemoveReturn, [ir |-> ir, rets |-> <<>>], CalleeList)
     IN  ir' = found.ir /\ rets' = found.rets
  /\ GoTo("constants")
  /\ UNCHANGED <<source, blocks, inst, args>>

-----------------------------------------------------------------------------
(***************************************************************************)
(* MoveConstants, one constant.                                            *)
(***************************************************************************)
FirstOfCallee == ir.first[CalleeEntry]
AtConstant    == FirstOfCallee # Null /\ ir.op[FirstOfCallee] = "CONSTANT"

\* SetNext(nullptr), though UnbindFrontInst has done so.
MoveConstant ==
  /\ pc = "constants" /\ AtConstant
  /\ ir' = PushFrontInst(UnbindFrontInst(ir, CalleeEntry), ir.entry[Caller], FirstOfCallee)
  /\ GoTo("constants")
  /\ UNCHANGED <<source, blocks, inst, args, rets>>

ConstantsDone ==
  /\ pc = "constants" /\ ~AtConstant
  /\ ir' = IF FirstOfCallee = Null THEN Stop(ir, "null") ELSE ir
  /\ GoTo("split")
  /\ UNCHANGED <<source, blocks, inst, args, rets>>

-----------------------------------------------------------------------------
(***************************************************************************)
(* SplitMoveAndConnectBlocks.                                              *)
(***************************************************************************)
NewBlock(s) == [s EXCEPT !.first = Append(@, Null), !.last = Append(@, Null),
                         !.succs = Append(@, <<>>), !.preds = Append(@, <<>>),
                         !.graph = Append(@, Null)]
Cont == Len(ir.first)

Split == /\ pc = "split"
         /\ ir' = NewBlock(ir)
         /\ pc' = "move"
         /\ UNCHANGED <<source, blocks, inst, args, rets>>

\* The last instruction of b moves to the front of c.
MoveLast(s, b, c) == UnbindBackInst(PushFrontInst(s, c, s.last[b]), b)

MoveInst ==
  /\ pc = "move" /\ ir.last[CallBlock] # inst
  /\ ir' = IF ir.last[CallBlock] = Null THEN Stop(ir, "null") ELSE MoveLast(ir, CallBlock, Cont)
  /\ GoTo("move")
  /\ UNCHANGED <<source, blocks, inst, args, rets>>

\* SetGraph(nullptr), then AddBasicBlock: the blocks of the callee, and the new one.
MoveBlocks ==
  /\ pc = "move" /\ ir.last[CallBlock] = inst
  /\ LET moved == Append(CalleeList, Cont)
     IN  ir' = [ir EXCEPT !.graph = [b \in DOMAIN @ |-> IF b \in Range(moved) THEN Caller ELSE @[b]],
                          !.lists[Caller] = @ \o moved]
  /\ pc' = "connect"
  /\ UNCHANGED <<source, blocks, inst, args, rets>>

\* RemoveSucc, RemovePred
Without(list, b) == RemoveFirst(list, b)

\* Fault variant: the successor still has the block of the call as a predecessor.
PredKept(s, from, c, b) ==
  [s EXCEPT !.succs[c] = Append(@, b), !.succs[from] = Without(@, b), !.preds[b] = Append(@, c)]

\* An edge from a block to b starts at c from now on.
MoveEdge(s, from, c, b) ==
  LET added == [s EXCEPT !.succs[c] = Append(@, b), !.preds[b] = Append(Without(@, from), c)]
  IN  [added EXCEPT !.succs[from] = Without(@, b)]

AddEdge(s, a, b) == [s EXCEPT !.succs[a] = Append(@, b), !.preds[b] = Append(@, a)]

\* The successors are erased while they are walked; there are at most two, and
\* the second one is still read where it was.
Connect ==
  /\ pc = "connect"
  /\ LET freed == FoldLeft(LAMBDA s, b : MoveEdge(s, CallBlock, Cont, b), ir, ir.succs[CallBlock])
         called == AddEdge(freed, CallBlock, CalleeEntry)
     IN  ir' = FoldLeft(LAMBDA s, r : AddEdge(s, r, Cont), called, rets)
  /\ GoTo("finish")
  /\ UNCHANGED <<source, blocks, inst, args, rets>>

\* The call is deleted.  RunPassImpl then reads its next_, which is null.
Finish ==
  /\ pc = "finish"
  /\ ir' = [PopBackInst(ir, CallBlock) EXCEPT !.lists[Callee] = <<>>]
  /\ inst' = ir.next[inst]
  /\ GoTo("visit")
  /\ UNCHANGED <<source, blocks, args, rets>>

Returned == pc = "done" /\ UNCHANGED vars

Next == \/ VisitBlock \/ VisitInst \/ VisitEnd \/ Argument \/ ArgumentsDone \/ Result
        \/ RemoveReturns \/ MoveConstant \/ ConstantsDone \/ Split \/ MoveInst \/ MoveBlocks
        \/ Connect \/ Finish \/ Returned
Spec == Init /\ [][Next]_vars
-----------------------------------------------------------------------------
Ended  == pc = "done" /\ Fine(ir)
Calls  == {i \in DOMAIN source.insts : source.insts[i].op = "CALL_STATIC"}
Op(i)  == source.insts[i].op
Ins(i) == source.insts[i].in
Own(b) == {i \in DOMAIN source.insts : source.insts[i].bb = b}

\* The instructions of graph g whose operation is in O.
Of(g, O) == {i \in UNION {Own(b) : b \in Range(source.lists[g])} : Op(i) \in O}
Final    == {"RET", "RET_VOID", "THROW"}

Blocks == Range(ir.lists[Caller])
Kept   == UNION {Range(ListOf(ir, b)) : b \in Blocks}

\* No function is called twice.
CalledOnce == \A i, j \in Calls : source.insts[i].callee = source.insts[j].callee => i = j

\* SubstituteInput replaces one use, and in a call none: no parameter and no
\* result of a call is used twice by one instruction, and no result is an
\* argument.  An argument passed twice would lose two users.
Substitutable ==
  \A i \in DOMAIN source.insts : \A j, k \in DOMAIN Ins(i) :
    /\ (i \in Calls \/ Op(Ins(i)[j]) \in {"CALL_STATIC", "PARAMETER"}) /\ j # k => Ins(i)[j] # Ins(i)[k]
    /\ i \in Calls => Ins(i)[j] \notin Calls

\* A function whose result is used returns one, and what returns goes nowhere.
Proper == /\ \A c \in Calls : (\E i \in DOMAIN source.insts : c \in Range(Ins(i)))
                                => Of(source.insts[c].callee, {"RET"}) # {}
          /\ \A i \in DOMAIN source.insts : Op(i) \in Final => source.succs[source.insts[i].bb] = <<>>

\* The new block keeps the edges of the calling block, and a phi input that is
\* substituted takes the block of the new value: a phi names neither the block
\* of a call nor a value that is substituted.
PhisApart == \A i \in DOMAIN source.insts : Op(i) = "PHI" =>
               /\ \A v \in Range(Ins(i)) : Op(v) \notin {"CALL_STATIC", "PARAMETER"}
               /\ \A c \in Calls : source.insts[c].bb \notin Range(source.insts[i].from)

\* The phi of several results takes each from the block that defines it.
LocalValues ==
  \A c \in Calls : LET all == Of(source.insts[c].callee, {"RET"})
                   IN  Cardinality(all) > 1 =>
                         \A r \in all : source.insts[Ins(r)[1]].bb = source.insts[r].bb

\* The blocks of callees in which a throw comes before the return.
ThrowReturns ==
  {b \in DOMAIN source.succs \ Range(source.lists[Caller]) :
     \E i, j \in Own(b) : Op(i) = "THROW" /\ j = i + 1 /\ Op(j) \in {"RET", "RET_VOID"}}

Times(list, b) == Cardinality({k \in DOMAIN list : list[k] = b})

\* The blocks of the callee, the new block and the edges between them belong to
\* the caller: when the pass has returned, every block is listed once and knows
\* its graph, no edge leaves the graph, and every edge is as many times in the
\* successors as in the predecessors (SplitMoveAndConnectBlocks, whose loop
\* erases the list that it walks): twice where ProcessReturns found a return
\* and the throw before it, and once otherwise.
GraphClosed ==
  Ended =>
    /\ IsInjective(ir.lists[Caller])
    /\ \A b \in Blocks : /\ ir.graph[b] = Caller
                         /\ Range(ir.succs[b]) \cup Range(ir.preds[b]) \subseteq Blocks
    /\ \A a \in Blocks : \A b \in Range(ir.succs[a]) \cup {c \in Blocks : a \in Range(ir.preds[c])} :
         /\ Times(ir.succs[a], b) = Times(ir.preds[b], a)
         /\ Times(ir.succs[a], b) = IF a \in ThrowReturns /\ b \notin DOMAIN source.succs THEN 2 ELSE 1

\* After all the unbinding, pushing and deleting the list of every block is the
\* same in both directions and holds no deleted instruction; a block that had
\* instructions still knows its last one (the new blocks do not: PushFrontInst
\* leaves last_inst_ null).
ListsIntact ==
  Ended => \A b \in Blocks : /\ WellLinked(ir, b)
                             /\ b \in DOMAIN source.succs /\ Own(b) # {} => EndKnown(ir, b)

\* When the pass has returned, a kept instruction uses kept ones and is listed
\* by each of them, and is listed by nobody else: parameters, returns and calls
\* leave no trace in the lists of users (for programs without the patterns
\* above, which are known to break them).
UsersAgree ==
  Ended /\ CalledOnce /\ Substitutable /\ Proper =>
    \A i \in Kept : /\ \A v \in Range(ir.in[i]) : v \in Kept /\ i \in Range(ir.users[v])
                    /\ \A u \in Range(ir.users[i]) : u \in Kept /\ i \in Range(ir.in[u])

\* Inlining does not change what the program computes, whichever way its jumps
\* go: the caller alone now yields the term that caller and callees yielded.
SameMeaning ==
  Ended /\ CalledOnce /\ Substitutable /\ Proper /\ PhisApart /\ LocalValues =>
    \A choice \in [{i \in DOMAIN source.insts : Op(i) = "JMP_EQ"} -> {1, 2}] :
      LET before == Run(Load(source), source.lists[Caller][1], Null, << >>, choice, Fuel)
      IN  before # TooLong => Run(ir, ir.entry[Caller], Null, << >>, choice, Fuel) = before

\* What makes a call unfit to be inlined: its callee was inlined before, an
\* argument is passed twice, a block of the callee has nothing but its return,
\* the first block has nothing after its constants, or the ends of the callee
\* are not those of a function with a result.
Unfit(c) ==
  LET g     == source.insts[c].callee
      entry == source.lists[g][1]
      leave(b) == {i \in Own(b) : Op(i) \notin {"RET", "RET_VOID"}}
  IN  \/ \E d \in Calls \ {c} : source.insts[d].callee = g
      \/ ~IsInjective(Ins(c))
      \/ \E b \in Range(source.lists[g]) : leave(b) = {}
      \/ \A i \in leave(entry) : Op(i) \in {"PARAMETER", "CONSTANT"}
      \/ Of(g, {"RET"}) # {} /\ Of(g, {"RET_VOID"}) # {}
      \/ \E r \in Of(g, {"RET"}) : /\ Of(g, {"RET"}) = {r}
                                   /\ \E t \in Of(g, {"THROW"}) :
                                        t < r /\ source.insts[t].bb # source.insts[r].bb

\* The pass ends in an assertion, a null pointer or a list of users gone wrong
\* only while it inlines an unfit call.
StopsExplained == ~Fine(ir) => Unfit(inst)
=============================================================================
