--------------------------- MODULE CheckElimination ---------------------------
(***************************************************************************)
(* The elimination of checks (pass/check_elimination.cpp), which runs      *)
(* DomTreeFast first: a check is deleted when an equal one dominates it.   *)
(* The users of its input are walked for one, and the check is removed     *)
(* from that very list, while the walk goes on to the end that the list    *)
(* had before.  One step is one instruction visited or one user looked at. *)
(***************************************************************************)
EXTENDS DomTreeFast

Code == INSTANCE BlockList

VARIABLES
  ir,         \* the instructions and their lists, a record as in BlockList
  blocks,     \* the blocks that RunPassImpl has not visited yet
  inst,       \* the instruction it looks at, or Null
  slots,      \* what the memory of the list being walked holds
  place,      \* the slot that is read next
  phase       \* "dominators", "visit", "walk", "done" or "stopped"

checkVars == <<ir, blocks, inst, slots, place, phase>>

Checks == {"CHECK_EQ_ZERO", "CHECK_EQ"}

\* The graph with instructions op and in, in the blocks bb.
Load(op, in, bb) ==
  LET own(b) == SelectSeq([i \in DOMAIN op |-> i], LAMBDA i : bb[i] = b)
      plain  == [op |-> op, in |-> in, users |-> [i \in DOMAIN op |-> <<>>],
                 next |-> <<>>, prev |-> <<>>, bb |-> <<>>, first |-> <<>>, last |-> <<>>,
                 freed |-> {}, status |-> "fine"]
      bound  == Code!Bind(plain, bb, [b \in Block |-> own(b)])
  IN  Code!BuildDFG(bound, FlattenSeq([b \in Block |-> own(b)]))

IsLeast(j, S)    == IF S = {} THEN j = Null ELSE j \in S /\ \A k \in S : j <= k
IsGreatest(j, S) == IF S = {} THEN j = Null ELSE j \in S /\ \A k \in S : k <= j

\* The instructions of the record s that are left, and those of block b.
Left(s)      == DOMAIN s.op \ s.freed
LeftOf(s, b) == {i \in Left(s) : s.bb[i] = b}

\* Every list has the instructions of its block in ascending order.
ListsLinked(s) ==
  /\ \A b \in Block : IsLeast(s.first[b], LeftOf(s, b)) /\ IsGreatest(s.last[b], LeftOf(s, b))
  /\ \A i \in Left(s) : /\ IsLeast(s.next[i], {k \in LeftOf(s, s.bb[i]) : i < k})
                        /\ IsGreatest(s.prev[i], {k \in LeftOf(s, s.bb[i]) : k < i})

\* Every instruction has those that use it as its users, once.
UsersKnown(s) ==
  \A v \in DOMAIN s.op : /\ Range(s.users[v]) = {i \in Left(s) : v \in Range(s.in[i])}
                         /\ IsInjective(s.users[v])

\* The records over the opcodes op.
Irs(op) == LET I == DOMAIN op
           IN  [op : {op}, in : [I -> Seq(I)], users : [I -> Seq(I)],
                next : [I -> I \cup {Null}], prev : [I -> I \cup {Null}], bb : [I -> Block],
                first : [Block -> I \cup {Null}], last : [Block -> I \cup {Null}],
                freed : SUBSET I, status : {"fine", "corrupt", "abort"}]

Shaped(s) ==
  /\ s.op \in Seq(STRING) /\ s \in Irs(s.op)
  /\ \A c \in DOMAIN s.op : s.op[c] \in Checks => Len(s.in[c]) = IF s.op[c] = "CHECK_EQ" THEN 2 ELSE 1

\* What IrBuilder leaves behind.
Built(s) == Shaped(s) /\ s.freed = {} /\ s.status = "fine" /\ ListsLinked(s) /\ UsersKnown(s)

CheckInit == /\ blocks = [b \in Block |-> b]
             /\ inst = Null /\ slots = <<>> /\ place = 0
             /\ phase = "dominators"

-----------------------------------------------------------------------------
\* RunPass<DomTreeFast>, which may crash.
Dominators == Next /\ pc \notin {"done", "crash", "used"} /\ UNCHANGED checkVars

DominatorsKnown == /\ phase = "dominators" /\ pc \in {"done", "crash"}
                   /\ IF pc = "done" THEN phase' = "visit" /\ pc' = "used"
                      ELSE phase' = "stopped" /\ UNCHANGED pc
                   /\ UNCHANGED <<succ, order, stack, parent, forest, dom, sdom, bucket, at, preds, idom>>
                   /\ UNCHANGED <<ir, blocks, inst, slots, place>>

TakeBlock == /\ phase = "visit" /\ inst = Null /\ blocks # <<>>
             /\ inst' = ir.first[Head(blocks)]
             /\ blocks' = Tail(blocks)
             /\ UNCHANGED <<vars, ir, slots, place, phase>>

VisitInst == /\ phase = "visit" /\ inst # Null
             /\ IF ir.op[inst] \in Checks
                THEN phase' = "walk" /\ slots' = ir.users[ir.in[inst][1]] /\ place' = 1 /\ UNCHANGED inst
                ELSE inst' = ir.next[inst] /\ UNCHANGED <<slots, place, phase>>
             /\ UNCHANGED <<vars, ir, blocks>>

VisitEnd == /\ phase = "visit" /\ inst = Null /\ blocks = <<>>
            /\ phase' = "done"
            /\ UNCHANGED <<vars, ir, blocks, inst, slots, place>>

-----------------------------------------------------------------------------
\* Fault variant: one common input is enough.
AnyInputEqual(a, b) == Range(a) \cap Range(b) # {}

\* CheckInputsEqual; of checks with one input the lists walked agree.
CheckInputsEqual(a, b) == a = b \/ a = Reverse(b)

\* Fault variant: of two instructions of a block each one dominates the other.
SameBlockDominates(d, i) == ir.bb[d] = ir.bb[i] \/ CheckDominance(ir.bb[d], ir.bb[i])

\* Graph::CheckDominance for instructions: i comes after d in the list of
\* their block, as long as i has not been taken out of it.
InstDominates(d, i) == IF ir.bb[d] = ir.bb[i] THEN i \in Range(Code!From(ir, d))
                       ELSE CheckDominance(ir.bb[d], ir.bb[i])

MakesRedundant(d, i) == /\ ir.op[d] = ir.op[i] /\ d # i
                        /\ CheckInputsEqual(ir.in[d], ir.in[i])
                        /\ InstDominates(d, i)

\* What RemoveUser writes into the memory of the list: the last user, in the
\* place of u, or one past the end if u is not in the list.
Overwritten(mem, list, u) ==
  LET k == IF u \in Range(list) THEN CHOOSE k \in DOMAIN list : list[k] = u ELSE Len(list) + 1
  IN  [j \in DOMAIN mem |-> IF j = k /\ list # <<>> THEN Last(list) ELSE mem[j]]

\* One input of inst loses it as a user.
RemoveFrom(s, v) == [ir  |-> Code!RemoveUser(s.ir, v, inst),
                     mem |-> IF v = ir.in[inst][1] THEN Overwritten(s.mem, s.ir.users[v], inst)
                             ELSE s.mem]

\* Fault variant: only the first input loses the check.
FirstInputOnly(s) == RemoveFrom(s, ir.in[inst][1])

\* input1->RemoveUser(inst), and input2->RemoveUser(inst) if it has two.
RemoveInst(s) == LET t == RemoveFrom(s, ir.in[inst][1])
                 IN  IF Len(ir.in[inst]) = 1 THEN t ELSE RemoveFrom(t, ir.in[inst][2])

WalkUser ==
  /\ phase = "walk" /\ place \in DOMAIN slots
  /\ IF MakesRedundant(slots[place], inst)
     THEN LET s == RemoveInst([ir |-> ir, mem |-> slots])
          IN  ir' = Code!Delete(s.ir, inst) /\ slots' = s.mem
     ELSE UNCHANGED <<ir, slots>>
  /\ place' = place + 1
  /\ phase' = IF Code!Fine(ir') THEN "walk" ELSE "stopped"
  /\ UNCHANGED <<vars, blocks, inst>>

\* The walk is over; the next instruction is read from inst, deleted or not.
WalkEnd == /\ phase = "walk" /\ place \notin DOMAIN slots
           /\ inst' = ir.next[inst]
           /\ phase' = "visit" /\ slots' = <<>> /\ place' = 0
           /\ UNCHANGED <<vars, ir, blocks>>

Eliminated == phase \in {"done", "stopped"} /\ UNCHANGED <<vars, checkVars>>

CheckNext == \/ Dominators \/ DominatorsKnown \/ TakeBlock \/ VisitInst \/ VisitEnd
             \/ WalkUser \/ WalkEnd \/ Eliminated

CheckSpec == Init /\ CheckInit /\ Built(ir) /\ [][CheckNext]_<<vars, checkVars>>

-----------------------------------------------------------------------------
AllChecks == {i \in DOMAIN ir.op : ir.op[i] \in Checks}
Kept      == DOMAIN ir.op \ ir.freed

\* Two checks of the same thing.
Equal(c, d) == ir.op[c] = ir.op[d] /\ Range(ir.in[c]) = Range(ir.in[d])

\* What CheckDominance answers yes to: to an unreachable block no path leads,
\* and no block is said to dominate it.
DominatorsOf(b) == IF b \in Reachable(succ) THEN StrictDominators(succ, b) ELSE {}

\* d comes before c on every path (the instructions of a block are numbered in
\* the order of the block).
Precedes(d, c) == IF ir.bb[d] = ir.bb[c] THEN d < c ELSE ir.bb[d] \in DominatorsOf(ir.bb[c])

\* A check that compares a value with itself is removed from one list twice.
ProperChecks == \A c \in AllChecks : IsInjective(ir.in[c])

\* The checks deleted are exactly those that an equal check precedes on every
\* path, and a check that is kept still precedes each of them: no order of the
\* blocks makes the pass delete two checks in favour of each other, or miss one
\* because the list changes under the walk.
ChecksExact ==
  phase = "done" /\ ProperChecks =>
    \A c \in AllChecks :
      c \in ir.freed <=> \E d \in AllChecks \cap Kept : Equal(c, d) /\ Precedes(d, c)

\* Every kept instruction is listed, once, by each of its inputs, no list has a
\* deleted one, and no block has lost another instruction.
CheckUsersAgree ==
  phase = "done" /\ ProperChecks =>
    /\ \A v \in Kept : /\ Range(ir.users[v]) = {i \in Kept : v \in Range(ir.in[i])}
                       /\ IsInjective(ir.users[v])
    /\ \A b \in Block : Range(Code!ListOf(ir, b)) = {i \in Kept : ir.bb[i] = b}

\* After the dominators are known the pass ends early only at a check that two
\* equal checks of other blocks precede, which it deletes twice; only a check
\* of a value with itself can empty a list of users.
CheckStopsExplained ==
  phase = "stopped" /\ pc = "used" =>
    \/ ir.status = "abort" /\ \E d, e \in AllChecks : /\ d # e /\ Equal(d, inst) /\ Equal(e, inst)
                                                      /\ ir.bb[inst] \notin {ir.bb[d], ir.bb[e]}
                                                      /\ Precedes(d, inst) /\ Precedes(e, inst)
    \/ ~ProperChecks
=============================================================================
