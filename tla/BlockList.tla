------------------------------ MODULE BlockList ------------------------------
(***************************************************************************)
(* The instruction list of a basic block (ir/basic_block.h) and what the   *)
(* destructor of an instruction does to it (ir/inst.cpp).  The record s    *)
(* has next, prev and bb of every instruction, first and last of every     *)
(* block, and freed, the deleted instructions.  A deleted instruction      *)
(* keeps its fields: the allocator overwrites only the start of the        *)
(* object, where none of them is.  The size of a block is left out: only   *)
(* LinearOrder reads it, to see whether a block that branches is empty.    *)
(***************************************************************************)
EXTENDS Instructions

\* Writing a field of an instruction that may be null.
Write(field, i, value) == IF i = Null THEN field ELSE [field EXCEPT ![i] = value]

\* BasicBlockBuilder binds the instructions of every block: those of block b
\* are lists[b], and bb says the block of an instruction.
Bind(s, bb, lists) ==
  LET end(b, k) == IF lists[b] = <<>> THEN Null ELSE lists[b][k]
      beside(i, d) == LET list == lists[bb[i]]
                          k == CHOOSE k \in DOMAIN list : list[k] = i
                      IN  IF k + d \in DOMAIN list THEN list[k + d] ELSE Null
  IN  [s EXCEPT !.first = [b \in DOMAIN lists |-> end(b, 1)],
                !.last  = [b \in DOMAIN lists |-> end(b, Len(lists[b]))],
                !.bb    = bb,
                !.next  = [i \in DOMAIN bb |-> beside(i, 1)],
                !.prev  = [i \in DOMAIN bb |-> beside(i, -1)]]

PushBackInst(s, b, i) ==
  IF ~Fine(s) THEN s
  ELSE IF s.prev[i] # Null THEN Stop(s, "assert")
  ELSE [s EXCEPT !.prev[i] = s.last[b], !.bb[i] = b,
                 !.next = Write(@, s.last[b], i), !.last[b] = i]

\* last_inst_ stays as it is, null in a block that was empty.
PushFrontInst(s, b, i) ==
  IF ~Fine(s) THEN s
  ELSE IF s.next[i] # Null THEN Stop(s, "assert")
  ELSE [s EXCEPT !.next[i] = s.first[b], !.bb[i] = b,
                 !.prev = Write(@, s.first[b], i), !.first[b] = i]

\* Inserts i before ref.
InsertInst(s, b, ref, i) ==
  IF ~Fine(s) THEN s
  ELSE IF s.prev[i] # Null \/ s.next[i] # Null THEN Stop(s, "assert")
  ELSE IF s.prev[ref] = Null THEN Stop(s, "null")
  ELSE [s EXCEPT !.prev[i] = s.prev[ref], !.next[i] = ref, !.bb[i] = b,
                 !.next[s.prev[ref]] = i, !.prev[ref] = i]

\* ~Inst joins the neighbours and moves the ends of the block.
Destroy(s, i) ==
  LET b == s.bb[i]
  IN  [s EXCEPT !.next  = Write(@, s.prev[i], s.next[i]),
                !.prev  = Write(@, s.next[i], s.prev[i]),
                !.first = IF b # Null /\ @[b] = i THEN [@ EXCEPT ![b] = s.next[i]] ELSE @,
                !.last  = IF b # Null /\ @[b] = i THEN [@ EXCEPT ![b] = s.prev[i]] ELSE @,
                !.freed = @ \cup {i}]

\* delete: of a null pointer nothing, of a deleted instruction the end.
Delete(s, i) ==
  IF ~Fine(s) \/ i = Null THEN s
  ELSE IF i \in s.freed THEN Stop(s, "abort")
  ELSE Destroy(s, i)

PopFrontInst(s, b) == Delete(s, s.first[b])
PopBackInst(s, b)  == Delete(s, s.last[b])

\* Fault variant: the unbound instruction keeps its next_.
UnbindFrontKept(s, b) ==
  LET i == s.first[b]
  IN  IF ~Fine(s) THEN s
      ELSE IF i = Null \/ s.next[i] = Null THEN Stop(s, "null")
      ELSE [s EXCEPT !.prev[s.next[i]] = Null, !.first[b] = s.next[i]]

\* Both follow a null pointer if the block has one instruction or none.
UnbindFrontInst(s, b) ==
  LET i == s.first[b]
  IN  IF ~Fine(s) THEN s
      ELSE IF i = Null \/ s.next[i] = Null THEN Stop(s, "null")
      ELSE [s EXCEPT !.prev[s.next[i]] = Null, !.next[i] = Null, !.first[b] = s.next[i]]

\* Fault variant: the new last instruction keeps its next_.
UnbindBackKept(s, b) ==
  LET i == s.last[b]
  IN  IF ~Fine(s) THEN s
      ELSE IF i = Null \/ s.prev[i] = Null THEN Stop(s, "null")
      ELSE [s EXCEPT !.prev[i] = Null, !.last[b] = s.prev[i]]

UnbindBackInst(s, b) ==
  LET i == s.last[b]
  IN  IF ~Fine(s) THEN s
      ELSE IF i = Null \/ s.prev[i] = Null THEN Stop(s, "null")
      ELSE [s EXCEPT !.next[s.prev[i]] = Null, !.prev[i] = Null, !.last[b] = s.prev[i]]

-----------------------------------------------------------------------------
\* The instructions from i on, for at most as many steps as there are instructions.
From(s, i) ==
  LET more(list) == IF s.next[Last(list)] = Null THEN list ELSE Append(list, s.next[Last(list)])
      from[n \in 0 .. Len(s.op)] == IF n = 0 THEN <<i>> ELSE more(from[n - 1])
  IN  IF i = Null THEN <<>> ELSE from[Len(s.op)]

\* The instructions of block b, as the passes walk them.
ListOf(s, b) == From(s, s.first[b])

\* The list of b is the same in both directions and knows its block; it begins
\* at first_inst_.
WellLinked(s, b) ==
  LET list == ListOf(s, b)
  IN  /\ IsInjective(list)
      /\ \A k \in DOMAIN list : /\ list[k] \notin s.freed
                                /\ s.bb[list[k]] = b
                                /\ s.prev[list[k]] = IF k = 1 THEN Null ELSE list[k - 1]

\* last_inst_ is the end of the list.
EndKnown(s, b) ==
  s.last[b] = IF s.first[b] = Null THEN Null ELSE Last(ListOf(s, b))
=============================================================================
