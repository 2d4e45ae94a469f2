------------------------------- MODULE RegAlloc -------------------------------
(***************************************************************************)
(* The linear scan register allocator (pass/reg_alloc.cpp).  The live      *)
(* intervals come from LivenessAnalysis; interval i is the half-open range *)
(* start[i] .. end[i]-1, and an empty one ([0,0] is what the analysis      *)
(* leaves for jumps, compares and void returns) is dropped.  One step of   *)
(* the scan is one iteration of the loop of LinearScan, the call to        *)
(* ExpireOldIntervals included.                                            *)
(***************************************************************************)
EXTENDS Integers, FiniteSets

CONSTANTS Interval,      \* the live intervals of the graph
          MAX_REG_NUM,   \* the width of the register bitmap
          MaxPoint       \* bound on the program points an interval may reach

ASSUME IntervalAssumption == IsFiniteSet(Interval)
ASSUME BoundAssumption    == MAX_REG_NUM \in Nat /\ MaxPoint \in Nat

VARIABLES
  start, end,            \* the ends of every interval
  regNum,                \* reg_num_, fixed before the pass by SetRegCount
  live,                  \* the intervals the graph still records
  pending,               \* live_intervals_ the scan has not reached yet
  active,                \* active_live_intervals_
  location,              \* location_ of every interval
  isStack,               \* is_stack_location_ of every interval
  regMap,                \* the set bits of reg_map_
  slot,                  \* cur_free_stack_slot_
  pc                     \* "prepare", "scan" or "done"

inputs == <<start, end, regNum>>
vars   == <<start, end, regNum, live, pending, active, location, isStack,
            regMap, slot, pc>>

Overlap(i, j) == start[i] < end[j] /\ start[j] < end[i]
Covers(i, p)  == start[i] <= p /\ p < end[i]
Placed        == IF pc = "prepare" THEN {} ELSE live \ pending
InRegister(i) == i \in Placed /\ ~isStack[i]
OnStack(i)    == i \in Placed /\ isStack[i]

-----------------------------------------------------------------------------
Init == /\ start \in [Interval -> 0 .. MaxPoint]
        /\ end \in [Interval -> 0 .. MaxPoint]
        /\ \A i \in Interval : start[i] <= end[i]
        /\ regNum \in 0 .. MAX_REG_NUM
        /\ live = Interval
        /\ pending = {}
        /\ active = {}
        /\ location = [i \in Interval |-> 0]
        /\ isStack = [i \in Interval |-> FALSE]
        /\ regMap = {}
        /\ slot = 0
        /\ pc = "prepare"

\* PrepareIntervals: empty intervals leave the graph's table, the others
\* are queued for the scan.
PrepareIntervals ==
  /\ pc = "prepare"
  /\ live' = {i \in live : start[i] # end[i]}
  /\ pending' = live'
  /\ pc' = "scan"
  /\ UNCHANGED <<inputs, active, location, isStack, regMap, slot>>

\* The queue is sorted by start only: std::sort leaves the order of
\* intervals with equal starts open.
NextInterval(cur) == /\ cur \in pending
                     /\ \A i \in pending : start[cur] <= start[i]

\* Fault variants of the expiry test.
ExpireTooEarly(cur) == {i \in active : end[i] > start[cur] + 1}
ExpireTooLate(cur)  == {i \in active : end[i] >= start[cur]}

\* ExpireOldIntervals: the active intervals that survive the start of cur.
Unexpired(cur) == {i \in active : end[i] > start[cur]}

\* Fault variant: expired intervals keep their register.
ReservedForever(cur) == regMap

\* The registers that ExpireOldIntervals leaves reserved.
Reserved(cur) == regMap \ {location[i] : i \in active \ Unexpired(cur)}

\* ReserveReg: the lowest clear bit of the bitmap.
FreeRegister(r, reserved) == r \notin reserved /\ 0 .. r - 1 \subseteq reserved

\* LinearScan, a register is free.
Allocate(cur) ==
  /\ pc = "scan" /\ NextInterval(cur)
  /\ Cardinality(Unexpired(cur)) # regNum
  /\ \E r \in 0 .. MAX_REG_NUM :
       /\ FreeRegister(r, Reserved(cur))
       /\ location' = [location EXCEPT ![cur] = r]
       /\ regMap' = Reserved(cur) \cup {r}
  /\ active' = Unexpired(cur) \cup {cur}
  /\ pending' = pending \ {cur}
  /\ UNCHANGED <<inputs, live, isStack, slot, pc>>

\* Fault variants: the label of a register stays; the counter stands still.
MoveUnlabelled(i)  == isStack' = isStack /\ slot' = slot + 1
MoveToSameSlot(i)  == isStack' = [isStack EXCEPT ![i] = TRUE] /\ slot' = slot

\* The part both branches of SpillAtInterval share: i lives in the next slot.
MoveToStack(i) == isStack' = [isStack EXCEPT ![i] = TRUE] /\ slot' = slot + 1

\* SpillAtInterval, the active interval that ends last goes on past cur: it
\* gives its register to cur and moves to the stack.  SortActiveIntervals
\* leaves the order of intervals with equal ends open.
SpillActive(cur) ==
  /\ pc = "scan" /\ NextInterval(cur)
  /\ Cardinality(Unexpired(cur)) = regNum
  /\ \E spill \in Unexpired(cur) :
       /\ \A i \in Unexpired(cur) : end[i] <= end[spill]
       /\ end[spill] > end[cur]
       /\ location' = [location EXCEPT ![cur] = location[spill], ![spill] = slot]
       /\ MoveToStack(spill)
       /\ active' = (Unexpired(cur) \ {spill}) \cup {cur}
  /\ regMap' = Reserved(cur)
  /\ pending' = pending \ {cur}
  /\ UNCHANGED <<inputs, live, pc>>

\* SpillAtInterval, cur ends last (or there is no register at all): cur
\* itself lives on the stack.
SpillCurrent(cur) ==
  /\ pc = "scan" /\ NextInterval(cur)
  /\ Cardinality(Unexpired(cur)) = regNum
  /\ \A i \in Unexpired(cur) : end[i] <= end[cur]
  /\ location' = [location EXCEPT ![cur] = slot]
  /\ MoveToStack(cur)
  /\ active' = Unexpired(cur)
  /\ regMap' = Reserved(cur)
  /\ pending' = pending \ {cur}
  /\ UNCHANGED <<inputs, live, pc>>

Scan == \E cur \in Interval : Allocate(cur) \/ SpillActive(cur) \/ SpillCurrent(cur)

Return == /\ pc = "scan" /\ pending = {}
          /\ pc' = "done"
          /\ UNCHANGED <<inputs, live, pending, active, location, isStack,
                         regMap, slot>>

Terminated == pc = "done" /\ UNCHANGED vars

Next == PrepareIntervals \/ Scan \/ Return \/ Terminated
Spec == Init /\ [][Next]_vars

-----------------------------------------------------------------------------
(***************************************************************************)
(* Correctness.                                                            *)
(***************************************************************************)
Pressure(p) == Cardinality({i \in live : Covers(i, p)})

\* The type invariant of the allocator's state.
TypeOK ==
  /\ start \in [Interval -> 0 .. MaxPoint]
  /\ end \in [Interval -> 0 .. MaxPoint]
  /\ regNum \in 0 .. MAX_REG_NUM
  /\ live \subseteq Interval
  /\ pending \subseteq live
  /\ active \subseteq live
  /\ location \in [Interval -> Nat]
  /\ isStack \in [Interval -> BOOLEAN]
  /\ regMap \subseteq Nat
  /\ slot \in Nat
  /\ pc \in {"prepare", "scan", "done"}

\* Two values that are live at the same point never share a register or a
\* stack slot, at any moment of the scan: a register returned by
\* ExpireOldIntervals or taken over in SpillAtInterval has no other holder
\* that is still live.
NoSharing ==
  \A i, j \in Placed :
    i # j /\ Overlap(i, j) => location[i] # location[j] \/ isStack[i] # isStack[j]

\* The bitmap and the active list tell the same story: the set bits are the
\* registers of the active intervals, one bit each, and every one of them is
\* a register that SetRegCount allows (ReserveReg never runs off the bitmap).
BitmapMatchesActive ==
  /\ regMap = {location[i] : i \in active}
  /\ \A i, j \in active : location[i] = location[j] => i = j
  /\ \A i \in Placed : InRegister(i) => location[i] < regNum

\* A value goes to memory only when it must: some point of its range has more
\* live values than there are registers, and of the values at that point it
\* is one that ends last (the choice of SpillAtInterval).
SpillJustified ==
  \A i \in Placed : OnStack(i) =>
    \E p \in start[i] .. end[i] - 1 :
      /\ Pressure(p) > regNum
      /\ \A j \in Placed : InRegister(j) /\ Covers(j, p) => end[j] <= end[i]

\* The stack frame has no hole: each of its slots belongs to one interval.
SlotsDense ==
  /\ {location[i] : i \in {j \in Placed : OnStack(j)}} = 0 .. slot - 1
  /\ \A i, j \in Placed : OnStack(i) /\ OnStack(j) /\ location[i] = location[j] => i = j

-----------------------------------------------------------------------------
\* The refinement mapping to Placement.
NoPlace == <<"none", 0>>
place == [i \in Interval |->
            IF i \notin Placed THEN NoPlace
            ELSE <<IF isStack[i] THEN "stack" ELSE "reg", location[i]>>]

Abstract == INSTANCE Placement WITH NoPlace <- NoPlace, place <- place

\* The scan implements the abstract allocator: it places the intervals one at
\* a time without conflict and takes a register away at most once, for good.
ImplementsPlacement == Abstract!Spec
=============================================================================
