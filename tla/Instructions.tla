---------------------------- MODULE Instructions ----------------------------
(***************************************************************************)
(* Instructions, their inputs and their lists of users (ir/inst.h,         *)
(* ir/inst.cpp), as operators on a record s that describes all of them:    *)
(* op, in (the inputs) and users are functions of the instruction, and     *)
(* status leaves "fine" when an assertion fails ("assert"), a null pointer *)
(* is used ("null"), or an element is taken from an empty list of users    *)
(* ("corrupt").  For phis there are from, the block that each input is     *)
(* said to come from, and bb, the block of every instruction.              *)
(***************************************************************************)
EXTENDS Integers, SequencesExt, Functions

Null == 0

TwoInputs == {"ADD", "SUB", "XOR", "SHL", "SHR", "CMP", "CHECK_EQ"}
OneInput  == {"NOT", "RET", "CHECK_EQ_ZERO"}

Fine(s)    == s.status = "fine"
Stop(s, w) == IF Fine(s) THEN [s EXCEPT !.status = w] ELSE s

\* Fault variant: a new user is not recorded.
Unrecorded(s, i, u) == s

AddUser(s, i, u) ==
  IF ~Fine(s) \/ u \in Range(s.users[i]) THEN s ELSE [s EXCEPT !.users[i] = Append(@, u)]

\* The last user takes the place of the removed one.  Of an instruction that is
\* no user the place is one past the end, so the last user is lost.
RemoveUser(s, i, u) ==
  LET list == s.users[i]
      full == [k \in DOMAIN list |-> IF list[k] = u THEN Last(list) ELSE list[k]]
  IN  IF ~Fine(s) THEN s
      ELSE IF list = <<>> THEN Stop(s, "corrupt")
      ELSE [s EXCEPT !.users[i] = Front(full)]

\* AddInput of a phi: an instruction is an input once, whatever the blocks.
AddInput(s, phi, i, b) ==
  IF ~Fine(s) \/ i \in Range(s.in[phi]) THEN s
  ELSE [s EXCEPT !.in[phi] = Append(@, i), !.from[phi] = Append(@, b)]

\* The place of an input that is among the inputs: the first one.
InputPlace(s, u, i) ==
  CHOOSE k \in DOMAIN s.in[u] : s.in[u][k] = i /\ \A j \in 1 .. k - 1 : s.in[u][j] # i

\* SubstituteInput; an InstCall inherits the one of Inst, which does nothing.
SubstituteInput(s, u, old, new) ==
  LET k == InputPlace(s, u, old)
  IN  IF ~Fine(s) \/ s.op[u] \notin TwoInputs \cup OneInput \cup {"PHI"} THEN s
      ELSE IF old \in Range(s.in[u])
      THEN IF s.op[u] = "PHI" THEN [s EXCEPT !.in[u][k] = new, !.from[u][k] = s.bb[new]]
           ELSE [s EXCEPT !.in[u][k] = new]
      ELSE IF s.op[u] = "PHI" THEN s ELSE Stop(s, "assert")

\* Every user of old becomes one of new, and uses it instead.
SubstituteUsers(s, old, new) ==
  FoldLeft(LAMBDA t, u : SubstituteInput(AddUser(t, new, u), u, old, new), s, s.users[old])

\* BuildDFG: the instructions of a list become users of their inputs.
BuildDFG(s, list) ==
  LET uses == FlattenSeq([n \in DOMAIN list |->
                            [k \in DOMAIN s.in[list[n]] |-> <<s.in[list[n]][k], list[n]>>]])
  IN  FoldLeft(LAMBDA t, e : AddUser(t, e[1], e[2]), s, uses)
=============================================================================
