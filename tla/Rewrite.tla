------------------------------- MODULE Rewrite -------------------------------
(***************************************************************************)
(* Constant folding and peephole rewriting (pass/const_folding.cpp,        *)
(* pass/peephole.cpp) of blocks that follow each other, with the dead code *)
(* elimination (pass/dce.cpp) that both run at their end.  One step is the *)
(* visit of one instruction, or dead code elimination.                     *)
(*                                                                         *)
(* Instructions are numbers; an instruction that a pass creates takes the  *)
(* next one.  A rewritten instruction loses its block pointer (dead) but   *)
(* stays in its block until dead code elimination deletes it.  Integers     *)
(* have W bits, in two's complement.  LEAF is a parameter or a call        *)
(* without arguments, whose value is not known.                            *)
(***************************************************************************)
EXTENDS Instructions, FiniteSets, Bitwise

CONSTANTS
  W,          \* the width of an integer
  Programs    \* the programs that are rewritten: lists of instructions
              \* [op, in, val, bb], bb being the number of the block

VARIABLES
  ir,         \* the instructions, in a record of the fields of Load below
  source,     \* the program, fixed
  todo,       \* the instructions still to be visited
  pass,       \* "fold" or "peephole"
  pc          \* "visit", "dce" or "done"

vars == <<ir, source, todo, pass, pc>>

Value  == -(2 ^ (W - 1)) .. 2 ^ (W - 1) - 1
Wrap(n) == ((n + 2 ^ (W - 1)) % 2 ^ W) - 2 ^ (W - 1)

Unlink(s, i) == [s EXCEPT !.dead = @ \cup {i}]

Replace(s, old, new) == Unlink(SubstituteUsers(s, old, new), old)

-----------------------------------------------------------------------------
(***************************************************************************)
(* New instructions.                                                       *)
(***************************************************************************)
Fresh(s) == Len(s.op) + 1

Create(s, op, in, val) ==
  [s EXCEPT !.op = Append(@, op), !.in = Append(@, in), !.val = Append(@, val),
            !.users = Append(@, <<>>)]

\* The block that lists i, and the place of i there.
BlockOf(s, i) == CHOOSE b \in DOMAIN s.blocks : i \in Range(s.blocks[b])
Place(s, i)   == CHOOSE k \in DOMAIN s.blocks[BlockOf(s, i)] : s.blocks[BlockOf(s, i)][k] = i

\* A constant at the front of the block of i.
PushConstant(s, i, c) ==
  IF i \in s.dead THEN Stop(s, "null")
  ELSE [Create(s, "CONSTANT", <<>>, c) EXCEPT !.blocks[BlockOf(s, i)] = <<Fresh(s)>> \o @]

ReplaceByConstant(s, i, c) ==
  LET t == PushConstant(s, i, c)
  IN  IF Fine(t) THEN Replace(t, i, Fresh(s)) ELSE t

\* GetPrev
Prev(s, i) == IF Place(s, i) = 1 THEN Null ELSE s.blocks[BlockOf(s, i)][Place(s, i) - 1]

IsConstant(s, i)      == s.op[i] = "CONSTANT"
HasConstant(s, i, c)  == IsConstant(s, s.in[i][2]) /\ s.val[s.in[i][2]] = c
SameInputs(s, i)      == s.in[i][1] = s.in[i][2]

\* The k-th input of i is the instruction before it, an op.
AfterOp(s, i, k, op)  == s.in[i][k] = Prev(s, i) /\ s.op[Prev(s, i)] = op
PrevIn(s, i, k)       == s.in[Prev(s, i)][k]

-----------------------------------------------------------------------------
(***************************************************************************)
(* The cases of Peephole.  Every case is tried, whatever the earlier ones  *)
(* have done.                                                              *)
(***************************************************************************)
ByFirstInput(s, i) == IF HasConstant(s, i, 0) THEN Replace(s, i, s.in[i][1]) ELSE s

BySelf(s, i) == IF Fine(s) /\ SameInputs(s, i) THEN ReplaceByConstant(s, i, 0) ELSE s

\* The instruction undoes the op before it.
Undo(s, i, op) ==
  IF Fine(s) /\ AfterOp(s, i, 1, op) /\ PrevIn(s, i, 2) = s.in[i][2]
  THEN Replace(s, i, PrevIn(s, i, 1)) ELSE s

UndoSub(s, i) ==
  IF Fine(s) /\ AfterOp(s, i, 2, "SUB") /\ PrevIn(s, i, 1) = s.in[i][1]
  THEN Replace(s, i, PrevIn(s, i, 2)) ELSE s

\* Fault variant: the constants are subtracted.
Difference(a, b) == Wrap(b - a)

Sum(a, b) == Wrap(a + b)

\* i stops using its input, which loses its block if nobody else uses it.
Release(s, i, input) ==
  LET t == RemoveUser(s, input, i)
  IN  IF t.users[input] = <<>> THEN Unlink(t, input) ELSE t

\* Two ops with constants become one; its new first input does not hear of it.
Chained(s, i, op) ==
  /\ AfterOp(s, i, 1, op) /\ IsConstant(s, s.in[i][2]) /\ IsConstant(s, PrevIn(s, i, 2))
Chain(s, i, op) ==
  IF ~(Fine(s) /\ Chained(s, i, op)) THEN s
  ELSE LET const == PushConstant(s, i, Sum(s.val[s.in[i][2]], s.val[PrevIn(s, i, 2)]))
           used  == AddUser(const, Fresh(s), i)
           freed == Release(Release(used, i, s.in[i][2]), i, s.in[i][1])
       IN  IF ~Fine(const) THEN const
           ELSE [freed EXCEPT !.in[i] = <<PrevIn(s, i, 1), Fresh(s)>>]

\* xor with -1 becomes NOT, inserted before it.
ToNot(s, i) ==
  IF ~(Fine(s) /\ HasConstant(s, i, -1)) THEN s
  ELSE IF i \in s.dead \/ Prev(s, i) = Null THEN Stop(s, "null")
  ELSE LET a   == s.in[i][1]
           new == [Create(s, "NOT", <<a>>, 0)
                     EXCEPT !.blocks[BlockOf(s, i)] = InsertAt(@, Place(s, i), Fresh(s))]
       IN  Replace(AddUser(RemoveUser(new, a, i), a, Fresh(s)), i, Fresh(s))

VisitSUB(s, i) == Chain(UndoSub(Undo(BySelf(ByFirstInput(s, i), i), i, "ADD"), i), i, "SUB")
VisitSHR(s, i) == Chain(Undo(ByFirstInput(s, i), i, "SHL"), i, "SHR")
VisitXOR(s, i) == ToNot(BySelf(ByFirstInput(s, i), i), i)

Peephole(s, i) ==
  CASE s.op[i] = "SUB" -> VisitSUB(s, i)
    [] s.op[i] = "SHR" -> VisitSHR(s, i)
    [] s.op[i] = "XOR" -> VisitXOR(s, i)
    [] OTHER           -> s

-----------------------------------------------------------------------------
(***************************************************************************)
(* What the operations compute.  A shift by a negative or too large amount *)
(* is undefined.                                                           *)
(***************************************************************************)
Undefined   == 2 ^ W
Unsigned(a) == a % 2 ^ W
IsShift(b)  == b \in 0 .. W - 1

Result(op, a, b) ==
  CASE op = "ADD" -> Wrap(a + b)
    [] op = "SUB" -> Wrap(a - b)
    [] op = "XOR" -> Wrap(Unsigned(a) ^^ Unsigned(b))
    [] op = "SHL" -> IF IsShift(b) THEN Wrap(a * 2 ^ b) ELSE Undefined
    [] op = "SHR" -> IF IsShift(b) THEN a \div 2 ^ b ELSE Undefined

\* What ConstFolding may compute.
Folded(op, a, b) ==
  IF Result(op, a, b) = Undefined THEN Value ELSE {Result(op, a, b)}

\* CheckConstInput
CheckConstInput(s, i) == \A k \in 1 .. 2 : IsConstant(s, s.in[i][k])

Fold(s, i) ==
  IF s.op[i] \in {"SUB", "SHR", "XOR"} /\ CheckConstInput(s, i)
  THEN {ReplaceByConstant(s, i, c) :
          c \in Folded(s.op[i], s.val[s.in[i][1]], s.val[s.in[i][2]])}
  ELSE {s}

-----------------------------------------------------------------------------
(***************************************************************************)
(* Dead code elimination.                                                  *)
(***************************************************************************)
\* Fault variant: one remaining user does not count.
NearlyUnused(s, i) == Len(s.users[i]) <= 1

Unused(s, i) == s.users[i] = <<>>

RECURSIVE MarkRecursively(_, _)
MarkRecursively(s, i) ==
  LET drop(t, a) == LET u == RemoveUser(t, a, i)
                    IN  IF Fine(u) /\ Unused(u, a) THEN MarkRecursively(u, a) ELSE u
      marked == [s EXCEPT !.marked = @ \cup {i}]
      first  == drop(marked, s.in[i][1])
  IN  IF i \in s.marked THEN s
      ELSE IF s.op[i] \notin TwoInputs THEN marked
      ELSE IF SameInputs(s, i) THEN first
      ELSE drop(first, s.in[i][2])

Mark(s)  == FoldLeft(LAMBDA t, i : IF i \in t.dead THEN MarkRecursively(t, i) ELSE t,
                     s, FlattenSeq(s.blocks))
Sweep(s) == [s EXCEPT !.blocks =
               [b \in DOMAIN @ |-> SelectSeq(@[b], LAMBDA i : i \notin s.marked)]]

-----------------------------------------------------------------------------
\* GraphBuilder, and BuildDFG, which adds the users.
Load(p) ==
  LET ids   == [i \in DOMAIN p |-> i]
      empty == [op |-> <<>>, in |-> <<>>, val |-> <<>>, users |-> <<>>,
                blocks |-> [b \in 1 .. Last(p).bb |-> SelectSeq(ids, LAMBDA i : p[i].bb = b)],
                dead |-> {}, marked |-> {}, status |-> "fine"]
  IN  BuildDFG(FoldLeft(LAMBDA s, i : Create(s, i.op, i.in, i.val), empty, p), ids)

Init == /\ source \in Programs
        /\ ir = Load(source)
        /\ todo = [i \in DOMAIN source |-> i]
        /\ pass \in {"fold", "peephole"}
        /\ pc = "visit"

VisitFold == /\ pc = "visit" /\ todo # <<>> /\ pass = "fold"
             /\ ir' \in Fold(ir, Head(todo))
             /\ todo' = Tail(todo)
             /\ pc' = IF Fine(ir') THEN pc ELSE "done"
             /\ UNCHANGED <<source, pass>>

VisitPeephole == /\ pc = "visit" /\ todo # <<>> /\ pass = "peephole"
                 /\ ir' = Peephole(ir, Head(todo))
                 /\ todo' = Tail(todo)
                 /\ pc' = IF Fine(ir') THEN pc ELSE "done"
                 /\ UNCHANGED <<source, pass>>

DCE == /\ pc = "visit" /\ todo = <<>>
       /\ ir' = LET s == Mark(ir) IN IF Fine(s) THEN Sweep(s) ELSE s
       /\ pc' = "done"
       /\ UNCHANGED <<source, todo, pass>>

Returned == pc = "done" /\ UNCHANGED vars

Next == VisitFold \/ VisitPeephole \/ DCE \/ Returned
Spec == Init /\ [][Next]_vars

-----------------------------------------------------------------------------
Kept == Range(FlattenSeq(ir.blocks))

\* The cases that match instruction i of s.
Matches(s, i) ==
  LET op == s.op[i]
      cases == [zero    |-> HasConstant(s, i, 0),
                self    |-> op # "SHR" /\ SameInputs(s, i),
                undo    |-> op # "XOR" /\ AfterOp(s, i, 1, IF op = "SUB" THEN "ADD" ELSE "SHL")
                              /\ PrevIn(s, i, 2) = s.in[i][2],
                undosub |-> op = "SUB" /\ AfterOp(s, i, 2, "SUB") /\ PrevIn(s, i, 1) = s.in[i][1],
                chain   |-> op # "XOR" /\ Chained(s, i, op),
                not     |-> op = "XOR" /\ HasConstant(s, i, -1)]
  IN  {c \in DOMAIN cases : cases[c]}

\* The constants that took the place of two.
Chains(s) == {i \in DOMAIN source : s.in[i] # <<>> /\ s.op[i] \in {"SUB", "SHR"}
                                      /\ s.in[i][2] > Len(source)
                                      /\ i \in Range(s.users[s.in[i][2]])}

\* A visit stops only at an instruction that matches two cases, or at an xor
\* with -1 at the start of the block; dead code elimination only after two
\* constants became one.
StopsExplained ==
  [][Fine(ir) /\ ~Fine(ir') =>
       IF todo = <<>> THEN Chains(ir) # {}
       ELSE \/ Cardinality(Matches(ir, Head(todo))) > 1
            \/ "not" \in Matches(ir, Head(todo)) /\ Prev(ir, Head(todo)) = Null]_vars

\* A kept instruction has kept inputs, unless it used one value twice, is a
\* call, or had its inputs rewritten.
InputsAlive ==
  pc = "done" /\ Fine(ir) =>
    \A i \in Kept : \/ Range(ir.in[i]) \subseteq Kept
                    \/ ir.op[i] \in {"CALL", "NOT"}
                    \/ i \in Chains(ir)
                    \/ ir.op[i] \in TwoInputs /\ source[i].in[1] = source[i].in[2]

\* What instruction i computes if the leaf has the value x.
RECURSIVE Eval(_, _, _)
Eval(s, i, x) ==
  LET a == Eval(s, s.in[i][1], x)
      b == Eval(s, s.in[i][2], x)
  IN  CASE s.op[i] = "LEAF"           -> x
        [] s.op[i] = "CONSTANT"       -> s.val[i]
        [] s.op[i] \in {"RET", "CALL"} -> a
        [] s.op[i] = "NOT"            -> IF a = Undefined THEN a ELSE -1 - a
        [] OTHER -> IF Undefined \in {a, b} THEN Undefined ELSE Result(s.op[i], a, b)

\* Shifts to and fro lose the high bits, and amounts may add up to the width.
ShiftsTwice ==
  \E i \in DOMAIN source : source[i].op = "SHR" /\ source[source[i].in[1]].op \in {"SHL", "SHR"}

\* Where inputs are alive and the program shifts no value twice, the last instruction has the value it had.
ValuesKept ==
  pc = "done" /\ Fine(ir) /\ ~ShiftsTwice /\ Len(source) \in Kept
    /\ (\A i \in Kept : Range(ir.in[i]) \subseteq Kept) =>
    \A x \in Value :
      LET before == Eval(Load(source), Len(source), x)
      IN  before # Undefined => Eval(ir, Len(source), x) = before

\* CheckUsers(bb, {{4, new_inst_id}, {4}, {-1}}): the value that is negated has
\* the NOT among its users.
NotIsListed ==
  pc = "done" /\ Fine(ir) =>
    \A i \in Kept : ir.op[i] = "NOT" => i \in Range(ir.users[ir.in[i][1]])
=============================================================================
