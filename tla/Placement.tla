------------------------------ MODULE Placement ------------------------------
(***************************************************************************)
(* What a register allocator promises, independently of how it finds its   *)
(* places: live intervals receive places one at a time, a place is a       *)
(* register or a stack slot, an interval that loses its register moves to  *)
(* the stack and never moves again, and at no time do two intervals that   *)
(* overlap hold the same place.  RegAlloc is shown to implement it.        *)
(***************************************************************************)
EXTENDS Integers

CONSTANTS Interval,     \* the live intervals
          NoPlace       \* the place of an interval that was not handled yet

VARIABLES start, end,   \* interval i covers the points start[i] .. end[i]-1
          regNum,       \* the number of registers
          place         \* the place of every interval

vars == <<start, end, regNum, place>>

Registers  == {"reg"} \X (0 .. regNum - 1)
StackSlots == {"stack"} \X Nat

Overlap(i, j) == start[i] < end[j] /\ start[j] < end[i]

\* No two overlapping intervals hold the same place.
Exclusive == \A i, j \in Interval :
               i # j /\ Overlap(i, j) /\ place[i] # NoPlace => place[i] # place[j]

Init == /\ start \in [Interval -> Nat]
        /\ end \in [Interval -> Nat]
        /\ regNum \in Nat
        /\ place = [i \in Interval |-> NoPlace]

\* An unplaced interval receives a place and nobody else moves.
Put(i) == /\ place[i] = NoPlace
          /\ place'[i] \in Registers \cup StackSlots
          /\ place' = [place EXCEPT ![i] = place'[i]]

\* An unplaced interval takes the register of another one, which is spilled.
Displace(i, j) == /\ place[i] = NoPlace
                  /\ place[j] \in Registers
                  /\ place'[j] \in StackSlots
                  /\ place' = [place EXCEPT ![i] = place[j], ![j] = place'[j]]

Next == /\ \E i \in Interval : Put(i) \/ \E j \in Interval : Displace(i, j)
        /\ Exclusive'
        /\ UNCHANGED <<start, end, regNum>>

Spec == Init /\ [][Next]_vars
=============================================================================
