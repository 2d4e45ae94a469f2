---------------------------- MODULE RegAllocProofs ----------------------------
(***************************************************************************)
(* Theorems about the linear scan of RegAlloc, for every set of intervals, *)
(* every number of registers and every bound on the program points.        *)
(***************************************************************************)
EXTENDS RegAlloc, FiniteSetTheorems, TLAPS

(***************************************************************************)
(* The inductive invariant, in named parts.                                *)
(***************************************************************************)
\* No interval runs backwards; before the scan nothing is placed; afterwards
\* only real intervals remain.
Phases ==
  /\ \A i \in Interval : start[i] <= end[i]
  /\ pc = "prepare" => active = {} /\ regMap = {} /\ slot = 0
  /\ pc # "prepare" => \A i \in live : start[i] < end[i]
  /\ pending = {} \/ pc = "scan"

\* The scan follows the starts: what is placed starts no later than what waits.
Sorted == \A i \in Placed, j \in pending : start[i] <= start[j]

\* The active intervals hold registers; a waiting one was never spilled; one
\* that left the active list with its register ends before the next start.
Holders ==
  /\ \A i \in active : InRegister(i)
  /\ \A i \in pending : ~isStack[i]
  /\ pc = "prepare" => \A i \in Interval : ~isStack[i]
  /\ \A i \in Placed \ active, j \in pending : ~isStack[i] => end[i] <= start[j]
  /\ Cardinality(active) <= regNum

IInv == /\ TypeOK
        /\ Phases
        /\ Sorted
        /\ Holders
        /\ BitmapMatchesActive
        /\ SlotsDense
        /\ NoSharing

LEMMA InitInv == Init => IInv
<1> SUFFICES ASSUME Init PROVE IInv
  OBVIOUS
<1> USE DEF Init
<1>1. TypeOK
  BY BoundAssumption DEF TypeOK
<1>2. Phases /\ Sorted /\ NoSharing
  BY DEF Phases, Sorted, Placed, NoSharing
<1>3. Holders
  BY FS_EmptySet, BoundAssumption DEF Holders, InRegister, Placed
<1>4. BitmapMatchesActive /\ SlotsDense
  BY DEF BitmapMatchesActive, SlotsDense, Placed, OnStack, InRegister
<1> QED
  BY <1>1, <1>2, <1>3, <1>4 DEF IInv

(***************************************************************************)
(* What ExpireOldIntervals leaves behind when cur is the next interval.    *)
(***************************************************************************)
LEMMA Expiry ==
  ASSUME IInv, NEW cur \in Interval, pc = "scan", NextInterval(cur)
  PROVE  /\ cur \in live /\ cur \notin Placed /\ cur \notin active
         /\ Unexpired(cur) \subseteq active
         /\ \A i \in Unexpired(cur) : InRegister(i) /\ start[i] <= start[cur] /\ start[cur] < end[i]
         /\ Reserved(cur) = {location[i] : i \in Unexpired(cur)}
         /\ \A i, j \in Unexpired(cur) : location[i] = location[j] => i = j
         /\ \A i \in Placed \ Unexpired(cur), j \in pending :
              ~isStack[i] => end[i] <= start[j]
         /\ IsFiniteSet(Unexpired(cur)) /\ Cardinality(Unexpired(cur)) \in Nat
         /\ Cardinality(Unexpired(cur)) <= regNum
<1> USE DEF IInv, TypeOK
<1>1. cur \in live /\ cur \notin Placed /\ cur \notin active
  BY DEF NextInterval, Placed, Holders, InRegister
<1>2. Unexpired(cur) \subseteq active
  BY DEF Unexpired
<1>3. \A i \in Unexpired(cur) : InRegister(i) /\ start[i] <= start[cur] /\ start[cur] < end[i]
  BY DEF Unexpired, Holders, InRegister, Sorted, NextInterval
<1>4. \A i, j \in active : location[i] = location[j] => i = j
  BY DEF BitmapMatchesActive
<1>5. Reserved(cur) = {location[i] : i \in Unexpired(cur)}
  BY <1>2, <1>4 DEF Reserved, BitmapMatchesActive
<1>6. ASSUME NEW i \in Placed \ Unexpired(cur), NEW j \in pending, ~isStack[i]
      PROVE  end[i] <= start[j]
  <2>1. start[cur] <= start[j]
    BY DEF NextInterval
  <2>2. i \in Interval /\ end[i] \in Int /\ start[cur] \in Int /\ start[j] \in Int
    BY DEF Placed
  <2>3. CASE i \in active
    BY <2>1, <2>2, <2>3 DEF Unexpired
  <2>4. CASE i \notin active
    BY <2>4, <1>6 DEF Holders
  <2> QED
    BY <2>3, <2>4
<1>7. /\ IsFiniteSet(Unexpired(cur)) /\ Cardinality(Unexpired(cur)) \in Nat
      /\ Cardinality(Unexpired(cur)) <= regNum
  <2>1. IsFiniteSet(active)
    BY IntervalAssumption, FS_Subset, active \subseteq Interval
  <2>2. /\ IsFiniteSet(Unexpired(cur))
        /\ Cardinality(Unexpired(cur)) <= Cardinality(active)
    BY <1>2, <2>1, FS_Subset
  <2> QED
    BY <2>1, <2>2, FS_CardinalityType DEF Holders
<1> QED
  BY <1>1, <1>2, <1>3, <1>4, <1>5, <1>6, <1>7

(***************************************************************************)
(* ReserveReg: when fewer than regNum intervals are active, the lowest     *)
(* clear bit is the number of a register.  Otherwise the registers 0 ..    *)
(* regNum-1 would all be held by fewer than regNum intervals.              *)
(***************************************************************************)
LEMMA LowestFreeIsRegister ==
  ASSUME IInv, NEW cur \in Interval, pc = "scan", NextInterval(cur),
         Cardinality(Unexpired(cur)) # regNum,
         NEW r \in 0 .. MAX_REG_NUM, FreeRegister(r, Reserved(cur))
  PROVE  r < regNum
<1> DEFINE U == Unexpired(cur)
           holder == [q \in 0 .. regNum - 1 |-> CHOOSE i \in U : location[i] = q]
<1>1. regNum \in Nat /\ r \in Nat
  BY BoundAssumption DEF IInv, TypeOK
<1>2. IsFiniteSet(U) /\ Cardinality(U) \in Nat /\ Cardinality(U) < regNum
  BY Expiry, <1>1
<1>3. SUFFICES ASSUME regNum <= r PROVE FALSE
  BY <1>1
<1>4. \A q \in 0 .. regNum - 1 : \E i \in U : location[i] = q
  <2> TAKE q \in 0 .. regNum - 1
  <2>1. q \in Reserved(cur)
    BY <1>1, <1>3 DEF FreeRegister
  <2> QED
    BY <2>1, Expiry
<1>5. \A q \in 0 .. regNum - 1 : holder[q] \in U /\ location[holder[q]] = q
  BY <1>4
<1>6. holder \in [0 .. regNum - 1 -> U]
  BY <1>5
<1>7. IsFiniteSet(0 .. regNum - 1) /\ Cardinality(0 .. regNum - 1) = regNum
  <2>1. regNum - 1 \in Int /\ 0 \in Int
    BY <1>1
  <2>2. /\ IsFiniteSet(0 .. regNum - 1)
        /\ Cardinality(0 .. regNum - 1) =
             IF 0 > regNum - 1 THEN 0 ELSE regNum - 1 - 0 + 1
    BY <2>1, FS_Interval, Zenon
  <2> QED
    BY <2>2, <1>1
<1>8. \E x, y \in 0 .. regNum - 1 : x # y /\ holder[x] = holder[y]
  <2> HIDE DEF U, holder
  <2>1. Cardinality(U) < Cardinality(0 .. regNum - 1)
    BY <1>2, <1>7
  <2> QED
    BY <1>2, <1>6, <1>7, <2>1, FS_PigeonHole, Zenon
<1> QED
  BY <1>5, <1>8

(***************************************************************************)
(* The common part of every iteration of LinearScan.                       *)
(***************************************************************************)
ScanStep(cur) == /\ pc = "scan" /\ NextInterval(cur)
                 /\ pending' = pending \ {cur}
                 /\ UNCHANGED <<inputs, live, pc>>

LEMMA ScanStepFacts ==
  ASSUME IInv, NEW cur \in Interval, ScanStep(cur)
  PROVE  /\ Placed' = Placed \cup {cur} /\ cur \notin Placed /\ Placed \subseteq Interval
         /\ Sorted' /\ Phases'
         /\ pending' \subseteq live' /\ live' \subseteq Interval
         /\ \A i, j \in Interval : Overlap(i, j)' <=> Overlap(i, j)
         /\ \A i \in Placed \ Unexpired(cur) : ~isStack[i] => ~Overlap(i, cur) /\ ~Overlap(cur, i)
<1> USE DEF ScanStep, inputs
<1>1. /\ Placed' = Placed \cup {cur} /\ cur \notin Placed /\ Placed \subseteq Interval
      /\ pending' \subseteq live' /\ live' \subseteq Interval
  BY DEF IInv, TypeOK, Placed, NextInterval
<1>2. Sorted'
  BY <1>1 DEF IInv, Sorted, NextInterval
<1>3. Phases'
  BY DEF IInv, Phases
<1>4. \A i, j \in Interval : Overlap(i, j)' <=> Overlap(i, j)
  BY DEF Overlap
<1>5. ASSUME NEW i \in Placed \ Unexpired(cur), ~isStack[i]
      PROVE  ~Overlap(i, cur) /\ ~Overlap(cur, i)
  <2>1. end[i] <= start[cur]
    BY <1>5, Expiry DEF NextInterval
  <2>2. i \in Interval /\ end[i] \in Int /\ start[cur] \in Int
    BY <1>1 DEF IInv, TypeOK
  <2> QED
    BY <2>1, <2>2 DEF Overlap
<1> QED
  BY <1>1, <1>2, <1>3, <1>4, <1>5

LEMMA AllocateInv ==
  ASSUME IInv, NEW cur \in Interval, Allocate(cur)
  PROVE  IInv'
<1> DEFINE U == Unexpired(cur)
<1>1. ScanStep(cur) /\ Cardinality(U) # regNum /\ pc' = "scan"
  BY DEF Allocate, ScanStep
<1>2. PICK r \in 0 .. MAX_REG_NUM :
        /\ FreeRegister(r, Reserved(cur))
        /\ location' = [location EXCEPT ![cur] = r]
        /\ regMap' = Reserved(cur) \cup {r}
  BY DEF Allocate
<1>3. r < regNum /\ r \in Nat
  BY <1>1, <1>2, LowestFreeIsRegister, BoundAssumption DEF ScanStep
<1>4. /\ active' = U \cup {cur} /\ isStack' = isStack /\ slot' = slot
      /\ start' = start /\ end' = end /\ regNum' = regNum /\ live' = live
  BY DEF Allocate, inputs
<1>5. /\ Placed' = Placed \cup {cur} /\ cur \notin Placed /\ Placed \subseteq Interval
      /\ pending' = pending \ {cur}
  BY <1>1, ScanStepFacts DEF ScanStep
<1>6. /\ cur \in live /\ cur \notin active /\ U \subseteq active
      /\ \A i \in U : InRegister(i)
      /\ Reserved(cur) = {location[i] : i \in U}
      /\ \A i, j \in U : location[i] = location[j] => i = j
      /\ IsFiniteSet(U) /\ Cardinality(U) \in Nat /\ Cardinality(U) <= regNum
  BY <1>1, Expiry DEF ScanStep
<1>7. TypeOK'
  BY <1>1, <1>2, <1>3, <1>4, <1>6, ScanStepFacts DEF IInv, TypeOK
<1>8. ~isStack[cur] /\ cur \in pending
  BY <1>1 DEF IInv, Holders, ScanStep, NextInterval
<1>9. /\ location'[cur] = r
      /\ \A i \in Interval : i # cur => location'[i] = location[i]
      /\ \A i \in U : location[i] # r
  BY <1>2, <1>6 DEF IInv, TypeOK, FreeRegister
<1>10. Holders'
  <2>1. \A i \in active' : InRegister(i)'
    BY <1>4, <1>5, <1>6, <1>8 DEF InRegister
  <2>2. \A i \in pending' : ~isStack'[i]
    BY <1>4, <1>5 DEF IInv, Holders
  <2>3. \A i \in Placed' \ active', j \in pending' : ~isStack'[i] => end'[i] <= start'[j]
    BY <1>1, <1>4, <1>5, Expiry DEF ScanStep
  <2>4. Cardinality(active') <= regNum'
    <3> HIDE DEF U
    <3>1. IsFiniteSet(U \cup {cur}) /\ Cardinality(U \cup {cur}) =
            IF cur \in U THEN Cardinality(U) ELSE Cardinality(U) + 1
      BY <1>6, FS_AddElement, Zenon
    <3>2. regNum \in Nat /\ Cardinality(U \cup {cur}) \in Nat
      BY <1>6, <3>1, BoundAssumption DEF IInv, TypeOK
    <3> QED
      BY <1>1, <1>4, <1>6, <3>1, <3>2
  <2> QED
    BY <1>1, <2>1, <2>2, <2>3, <2>4 DEF Holders
<1>11. BitmapMatchesActive'
  <2>1. regMap' = {location'[i] : i \in active'}
    BY <1>2, <1>4, <1>5, <1>6, <1>9 DEF InRegister
  <2>2. \A i, j \in active' : location'[i] = location'[j] => i = j
    BY <1>4, <1>5, <1>6, <1>9 DEF InRegister
  <2>3. \A i \in Placed' : InRegister(i)' => location'[i] < regNum'
    BY <1>3, <1>4, <1>5, <1>9 DEF InRegister, IInv, BitmapMatchesActive
  <2> QED
    BY <2>1, <2>2, <2>3 DEF BitmapMatchesActive
<1>12. SlotsDense'
  <2>1. \A i \in Placed' : OnStack(i)' <=> i \in Placed /\ OnStack(i)
    BY <1>4, <1>5, <1>8 DEF OnStack
  <2>2. \A i \in Placed : location'[i] = location[i]
    BY <1>5, <1>9
  <2>3. {j \in Placed' : OnStack(j)'} = {j \in Placed : OnStack(j)}
    BY <1>5, <2>1
  <2>4. {location'[i] : i \in {j \in Placed : OnStack(j)}} =
          {location[i] : i \in {j \in Placed : OnStack(j)}}
    BY <2>2
  <2>5. \A i, j \in Placed' :
          OnStack(i)' /\ OnStack(j)' /\ location'[i] = location'[j] => i = j
    BY <2>1, <2>2 DEF IInv, SlotsDense
  <2> QED
    BY <1>4, <2>3, <2>4, <2>5 DEF IInv, SlotsDense
<1>13. NoSharing'
  <2> SUFFICES ASSUME NEW i \in Placed', NEW j \in Placed', i # j, Overlap(i, j)
               PROVE  location'[i] # location'[j] \/ isStack'[i] # isStack'[j]
    BY <1>1, <1>5, ScanStepFacts DEF NoSharing
  <2>1. CASE i # cur /\ j # cur
    BY <2>1, <1>4, <1>5, <1>9 DEF IInv, NoSharing
  <2>2. CASE i = cur
    BY <2>2, <1>1, <1>4, <1>5, <1>8, <1>9, ScanStepFacts
  <2>3. CASE j = cur
    BY <2>3, <1>1, <1>4, <1>5, <1>8, <1>9, ScanStepFacts
  <2> QED
    BY <2>1, <2>2, <2>3
<1> QED
  BY <1>1, <1>7, <1>10, <1>11, <1>12, <1>13, ScanStepFacts DEF IInv

LEMMA SpillActiveInv ==
  ASSUME IInv, NEW cur \in Interval, SpillActive(cur)
  PROVE  IInv'
<1> DEFINE U == Unexpired(cur)
<1>1. ScanStep(cur) /\ Cardinality(U) = regNum /\ pc' = "scan"
  BY DEF SpillActive, ScanStep
<1>2. PICK spill \in U :
        /\ location' = [location EXCEPT ![cur] = location[spill], ![spill] = slot]
        /\ MoveToStack(spill)
        /\ active' = (U \ {spill}) \cup {cur}
  BY DEF SpillActive
<1>3. /\ isStack' = [isStack EXCEPT ![spill] = TRUE] /\ slot' = slot + 1
      /\ start' = start /\ end' = end /\ regNum' = regNum /\ live' = live
      /\ regMap' = Reserved(cur)
  BY <1>2 DEF SpillActive, inputs, MoveToStack
<1>4. /\ Placed' = Placed \cup {cur} /\ cur \notin Placed /\ Placed \subseteq Interval
      /\ pending' = pending \ {cur}
  BY <1>1, ScanStepFacts DEF ScanStep
<1>5. /\ cur \in live /\ cur \notin active /\ U \subseteq active
      /\ \A i \in U : InRegister(i)
      /\ Reserved(cur) = {location[i] : i \in U}
      /\ \A i, j \in U : location[i] = location[j] => i = j
      /\ IsFiniteSet(U) /\ Cardinality(U) \in Nat /\ Cardinality(U) <= regNum
  BY <1>1, Expiry DEF ScanStep
<1>6. ~isStack[cur] /\ cur \in pending /\ slot \in Nat
  BY <1>1 DEF IInv, TypeOK, Holders, ScanStep, NextInterval
<1>7. spill \in Placed /\ ~isStack[spill] /\ spill # cur /\ spill \in Interval
  BY <1>4, <1>5 DEF InRegister
<1>8. /\ location'[cur] = location[spill] /\ location'[spill] = slot
      /\ \A i \in Interval \ {cur, spill} : location'[i] = location[i]
      /\ isStack'[spill] = TRUE
      /\ \A i \in Interval \ {spill} : isStack'[i] = isStack[i]
  BY <1>2, <1>3, <1>7 DEF IInv, TypeOK
<1>9. TypeOK'
  BY <1>1, <1>2, <1>3, <1>5, <1>7, ScanStepFacts DEF IInv, TypeOK
<1>10. Holders'
  <2>1. \A i \in active' : InRegister(i)'
    BY <1>2, <1>4, <1>5, <1>6, <1>8 DEF InRegister
  <2>2. \A i \in pending' : ~isStack'[i]
    <3>1. spill \notin pending /\ pending \subseteq Interval
      BY <1>1, <1>7 DEF IInv, TypeOK, Placed
    <3> QED
      BY <3>1, <1>4, <1>8 DEF IInv, Holders
  <2>3. ASSUME NEW i \in Placed' \ active', NEW j \in pending', ~isStack'[i]
        PROVE  end'[i] <= start'[j]
    <3>1. i # cur /\ i # spill /\ i \in Placed \ U
      BY <2>3, <1>2, <1>4, <1>8
    <3>2. ~isStack[i] /\ j \in pending
      BY <2>3, <3>1, <1>4, <1>8
    <3> QED
      BY <3>1, <3>2, <1>1, <1>3, Expiry DEF ScanStep
  <2>4. Cardinality(active') <= regNum'
    <3> HIDE DEF U
    <3>1. IsFiniteSet(U \ {spill}) /\ Cardinality(U \ {spill}) = Cardinality(U) - 1
      BY <1>5, FS_RemoveElement
    <3>2. Cardinality((U \ {spill}) \cup {cur}) =
            IF cur \in U \ {spill} THEN Cardinality(U \ {spill})
                                  ELSE Cardinality(U \ {spill}) + 1
      BY <3>1, FS_AddElement, Zenon
    <3> QED
      BY <1>1, <1>2, <1>3, <1>5, <3>1, <3>2
  <2> QED
    BY <1>1, <2>1, <2>2, <2>3, <2>4 DEF Holders
<1>11. BitmapMatchesActive'
  <2>1. regMap' = {location'[i] : i \in active'}
    <3>1. U \subseteq Interval /\ cur \notin U
      BY <1>4, <1>5 DEF InRegister
    <3>2. \A i \in U \ {spill} : location'[i] = location[i]
      BY <3>1, <1>8
    <3>3. {location'[i] : i \in active'} =
            {location[i] : i \in U \ {spill}} \cup {location[spill]}
      <4>1. active' = (U \ {spill}) \cup {cur}
        BY <1>2
      <4> HIDE DEF U
      <4> QED
        BY <3>2, <1>8, <4>1
    <3> QED
      BY <3>3, <1>3, <1>5
  <2>2. \A i, j \in active' : location'[i] = location'[j] => i = j
    BY <1>2, <1>4, <1>5, <1>7, <1>8 DEF InRegister
  <2>3. \A i \in Placed' : InRegister(i)' => location'[i] < regNum'
    BY <1>3, <1>4, <1>7, <1>8 DEF InRegister, IInv, BitmapMatchesActive
  <2> QED
    BY <2>1, <2>2, <2>3 DEF BitmapMatchesActive
<1>12. SlotsDense'
  <2> DEFINE old == {j \in Placed : OnStack(j)}
  <2>1. {j \in Placed' : OnStack(j)'} = old \cup {spill} /\ spill \notin old
    BY <1>3, <1>4, <1>6, <1>7, <1>8 DEF OnStack
  <2>2. \A i \in old : location'[i] = location[i] /\ location[i] \in 0 .. slot - 1
    BY <1>4, <1>7, <1>8, <2>1 DEF IInv, SlotsDense
  <2>3. {location'[i] : i \in old \cup {spill}} = 0 .. slot
    <3>1. {location[i] : i \in old} = 0 .. slot - 1
      BY DEF IInv, SlotsDense
    <3>2. {location'[i] : i \in old \cup {spill}} = {location[i] : i \in old} \cup {slot}
      BY <1>8, <2>2
    <3>3. (0 .. slot - 1) \cup {slot} = 0 .. slot
      BY <1>6
    <3> QED
      BY <3>1, <3>2, <3>3
  <2>4. \A i, j \in old \cup {spill} : location'[i] = location'[j] => i = j
    BY <1>6, <1>8, <2>2 DEF IInv, SlotsDense
  <2>5. 0 .. slot = 0 .. slot' - 1
    BY <1>3, <1>6
  <2>6. \A i, j \in Placed' :
          OnStack(i)' /\ OnStack(j)' /\ location'[i] = location'[j] => i = j
    BY <2>1, <2>4
  <2> QED
    BY <2>1, <2>3, <2>5, <2>6 DEF SlotsDense
<1>13. NoSharing'
  <2> SUFFICES ASSUME NEW i \in Placed', NEW j \in Placed', i # j, Overlap(i, j)
               PROVE  location'[i] # location'[j] \/ isStack'[i] # isStack'[j]
    BY <1>1, <1>4, ScanStepFacts DEF NoSharing
  <2>1. CASE isStack'[i] /\ isStack'[j]
    BY <2>1, <1>4, <1>12, SlotsDense' DEF SlotsDense, OnStack
  <2>2. CASE i # cur /\ j # cur /\ ~isStack'[i] /\ ~isStack'[j]
    BY <2>2, <1>4, <1>8 DEF IInv, NoSharing
  <2>3. ASSUME NEW k \in Placed, k # spill, ~isStack[k], Overlap(k, cur) \/ Overlap(cur, k)
        PROVE  location[k] # location[spill]
    BY <2>3, <1>1, <1>5, ScanStepFacts
  <2>4. CASE i = cur /\ ~isStack'[j]
    BY <2>3, <2>4, <1>4, <1>8
  <2>5. CASE j = cur /\ ~isStack'[i]
    BY <2>3, <2>5, <1>4, <1>8
  <2> QED
    BY <2>1, <2>2, <2>4, <2>5, <1>4, <1>6, <1>7, <1>8 DEF IInv, TypeOK
<1> QED
  BY <1>1, <1>9, <1>10, <1>11, <1>12, <1>13, ScanStepFacts DEF IInv

LEMMA SpillCurrentInv ==
  ASSUME IInv, NEW cur \in Interval, SpillCurrent(cur)
  PROVE  IInv'
<1> DEFINE U == Unexpired(cur)
<1>1. ScanStep(cur) /\ Cardinality(U) = regNum /\ pc' = "scan"
  BY DEF SpillCurrent, ScanStep
<1>2. /\ location' = [location EXCEPT ![cur] = slot]
      /\ isStack' = [isStack EXCEPT ![cur] = TRUE] /\ slot' = slot + 1
      /\ start' = start /\ end' = end /\ regNum' = regNum /\ live' = live
      /\ active' = U /\ regMap' = Reserved(cur)
  BY DEF SpillCurrent, inputs, MoveToStack
<1>3. /\ Placed' = Placed \cup {cur} /\ cur \notin Placed /\ Placed \subseteq Interval
      /\ pending' = pending \ {cur} /\ pending \subseteq Interval
  BY <1>1, ScanStepFacts DEF ScanStep, IInv, TypeOK
<1>4. /\ U \subseteq active
      /\ \A i \in U : InRegister(i)
      /\ Reserved(cur) = {location[i] : i \in U}
      /\ \A i, j \in U : location[i] = location[j] => i = j
      /\ Cardinality(U) <= regNum
  BY <1>1, Expiry DEF ScanStep
<1>5. /\ location'[cur] = slot /\ isStack'[cur] = TRUE /\ slot \in Nat
      /\ \A i \in Interval \ {cur} : location'[i] = location[i] /\ isStack'[i] = isStack[i]
  BY <1>2 DEF IInv, TypeOK
<1>6. U \subseteq Placed
  BY <1>4 DEF InRegister
<1>7. TypeOK'
  BY <1>1, <1>2, <1>4, ScanStepFacts DEF IInv, TypeOK
<1>8. Holders'
  <2>1. \A i \in active' : InRegister(i)'
    BY <1>2, <1>3, <1>4, <1>5 DEF InRegister
  <2>2. \A i \in pending' : ~isStack'[i]
    BY <1>3, <1>5 DEF IInv, Holders
  <2>3. ASSUME NEW i \in Placed' \ active', NEW j \in pending', ~isStack'[i]
        PROVE  end'[i] <= start'[j]
    <3>1. i \in Placed \ U /\ ~isStack[i] /\ j \in pending
      BY <2>3, <1>2, <1>3, <1>5
    <3> QED
      BY <3>1, <1>1, <1>2, Expiry DEF ScanStep
  <2> QED
    BY <1>1, <1>2, <1>4, <2>1, <2>2, <2>3 DEF Holders
<1>9. BitmapMatchesActive'
  <2>1. \A i \in U : location'[i] = location[i]
    BY <1>3, <1>5, <1>6
  <2>2. regMap' = {location'[i] : i \in active'}
    BY <1>2, <1>4, <2>1
  <2>3. \A i \in Placed' : InRegister(i)' => location'[i] < regNum'
    BY <1>2, <1>3, <1>5 DEF InRegister, IInv, BitmapMatchesActive
  <2> QED
    BY <1>2, <1>4, <2>1, <2>2, <2>3 DEF BitmapMatchesActive
<1>10. SlotsDense'
  <2> DEFINE old == {j \in Placed : OnStack(j)}
  <2>1. {j \in Placed' : OnStack(j)'} = old \cup {cur} /\ cur \notin old
    BY <1>3, <1>5 DEF OnStack
  <2>2. \A i \in old : location'[i] = location[i] /\ location[i] \in 0 .. slot - 1
    BY <1>3, <1>5, <2>1 DEF IInv, SlotsDense
  <2>3. {location'[i] : i \in old \cup {cur}} = 0 .. slot
    <3>1. {location[i] : i \in old} = 0 .. slot - 1
      BY DEF IInv, SlotsDense
    <3>2. {location'[i] : i \in old \cup {cur}} = {location[i] : i \in old} \cup {slot}
      BY <1>5, <2>2
    <3>3. (0 .. slot - 1) \cup {slot} = 0 .. slot
      BY <1>5
    <3> QED
      BY <3>1, <3>2, <3>3
  <2>4. \A i, j \in old \cup {cur} : location'[i] = location'[j] => i = j
    BY <1>5, <2>2 DEF IInv, SlotsDense
  <2>5. 0 .. slot = 0 .. slot' - 1
    BY <1>2, <1>5
  <2>6. \A i, j \in Placed' :
          OnStack(i)' /\ OnStack(j)' /\ location'[i] = location'[j] => i = j
    BY <2>1, <2>4
  <2> QED
    BY <2>1, <2>3, <2>5, <2>6 DEF SlotsDense
<1>11. NoSharing'
  <2> SUFFICES ASSUME NEW i \in Placed', NEW j \in Placed', i # j, Overlap(i, j)
               PROVE  location'[i] # location'[j] \/ isStack'[i] # isStack'[j]
    BY <1>1, <1>3, ScanStepFacts DEF NoSharing
  <2>1. CASE isStack'[i] /\ isStack'[j]
    BY <2>1, <1>3, <1>10 DEF SlotsDense, OnStack
  <2>2. CASE i # cur /\ j # cur
    BY <2>2, <1>3, <1>5 DEF IInv, NoSharing
  <2> QED
    BY <2>1, <2>2, <1>3, <1>5, <1>7 DEF TypeOK
<1> QED
  BY <1>1, <1>7, <1>8, <1>9, <1>10, <1>11, ScanStepFacts DEF IInv

LEMMA PrepareInv == IInv /\ PrepareIntervals => IInv'
<1> SUFFICES ASSUME IInv, PrepareIntervals PROVE IInv'
  OBVIOUS
<1> USE DEF PrepareIntervals, inputs
<1>1. Placed = {} /\ Placed' = {} /\ active' = {} /\ regMap' = {} /\ slot' = 0 /\ pc' = "scan"
  BY DEF IInv, Phases, Placed
<1>2. TypeOK'
  BY <1>1 DEF IInv, TypeOK
<1>3. Phases'
  <2>1. \A i \in Interval : start[i] \in Int /\ end[i] \in Int /\ start[i] <= end[i]
    BY DEF IInv, TypeOK, Phases
  <2> QED
    BY <1>1, <2>1 DEF IInv, TypeOK, Phases
<1>4. Sorted' /\ NoSharing'
  BY <1>1 DEF Sorted, NoSharing
<1>5. Holders'
  BY <1>1, <1>2 DEF IInv, TypeOK, Holders, Phases
<1>6. BitmapMatchesActive' /\ SlotsDense'
  BY <1>1 DEF BitmapMatchesActive, SlotsDense
<1> QED
  BY <1>2, <1>3, <1>4, <1>5, <1>6 DEF IInv

LEMMA ReturnInv == IInv /\ Return => IInv'
<1> SUFFICES ASSUME IInv, Return PROVE IInv'
  OBVIOUS
<1> USE DEF Return, inputs
<1>1. Placed' = Placed
  BY DEF Placed
<1>2. TypeOK' /\ Phases'
  BY DEF IInv, TypeOK, Phases
<1>3. Sorted' /\ Holders'
  BY <1>1 DEF IInv, Sorted, Holders, InRegister
<1>4. BitmapMatchesActive' /\ SlotsDense' /\ NoSharing'
  BY <1>1 DEF IInv, BitmapMatchesActive, SlotsDense, NoSharing, InRegister, OnStack, Overlap
<1> QED
  BY <1>2, <1>3, <1>4 DEF IInv

LEMMA NextInv == IInv /\ [Next]_vars => IInv'
<1> SUFFICES ASSUME IInv, [Next]_vars PROVE IInv'
  OBVIOUS
<1>1. CASE PrepareIntervals
  BY <1>1, PrepareInv
<1>2. CASE Scan
  BY <1>2, AllocateInv, SpillActiveInv, SpillCurrentInv DEF Scan
<1>3. CASE Return
  BY <1>3, ReturnInv
<1>4. CASE UNCHANGED vars
  BY <1>4 DEF vars, inputs, IInv, TypeOK, Phases, Sorted, Holders, BitmapMatchesActive,
              SlotsDense, NoSharing, InRegister, OnStack, Overlap, Placed
<1> QED
  BY <1>1, <1>2, <1>3, <1>4 DEF Next, Terminated

LEMMA Inductive == Spec => []IInv
<1> QED
  BY InitInv, NextInv, PTL DEF Spec

(***************************************************************************)
(* The state of the allocator stays well formed.                           *)
(***************************************************************************)
THEOREM TypeCorrect == Spec => []TypeOK
<1>1. IInv => TypeOK
  BY DEF IInv
<1> QED
  BY <1>1, Inductive, PTL

(***************************************************************************)
(* No two values that are live at the same point share a register or a     *)
(* stack slot, whatever the intervals and the number of registers.         *)
(***************************************************************************)
THEOREM NeverShared == Spec => []NoSharing
<1>1. IInv => NoSharing
  BY DEF IInv
<1> QED
  BY <1>1, Inductive, PTL

(***************************************************************************)
(* The bitmap holds the registers of the active intervals and nothing      *)
(* else, and ReserveReg never goes past the register count.                *)
(***************************************************************************)
THEOREM BitmapExact == Spec => []BitmapMatchesActive
<1>1. IInv => BitmapMatchesActive
  BY DEF IInv
<1> QED
  BY <1>1, Inductive, PTL

(***************************************************************************)
(* Stack slots are handed out without holes and never twice.               *)
(***************************************************************************)
THEOREM SlotsExact == Spec => []SlotsDense
<1>1. IInv => SlotsDense
  BY DEF IInv
<1> QED
  BY <1>1, Inductive, PTL

(***************************************************************************)
(* Why an interval is on the stack.  At point p there is pressure, and no  *)
(* register there belongs to an interval that ends later.  That stays true *)
(* because the scan has reached p: whatever starts at p from now on finds  *)
(* all registers held by intervals that cover p.                           *)
(***************************************************************************)
Justified(i, p) ==
  /\ p \in start[i] .. end[i] - 1
  /\ Pressure(p) > regNum
  /\ \A j \in Placed : InRegister(j) /\ Covers(j, p) => end[j] <= end[i]
  /\ \A j \in pending : p <= start[j]
  /\ \A j \in pending : start[j] = p =>
       Cardinality(active) = regNum /\ \A k \in active : Covers(k, p)

Pressed == \A i \in Placed : OnStack(i) => \E p \in Int : Justified(i, p)

\* One iteration of the scan, seen from an interval that is on the stack.
Turnover(cur) ==
  /\ ScanStep(cur)
  /\ active' \subseteq Unexpired(cur) \cup {cur}
  /\ \A j \in Placed : ~isStack'[j] => ~isStack[j]
  /\ Cardinality(Unexpired(cur)) = regNum => Cardinality(active') = regNum

LEMMA SamePressure ==
  ASSUME NEW cur, ScanStep(cur), NEW p
  PROVE  Pressure(p)' = Pressure(p)
BY DEF ScanStep, inputs, Pressure, Covers

LEMMA JustifiedKept ==
  ASSUME IInv, NEW cur \in Interval, Turnover(cur),
         ~isStack'[cur] => \/ Cardinality(Unexpired(cur)) # regNum
                           \/ \E k \in Unexpired(cur) : end[cur] <= end[k],
         NEW i \in Placed, NEW p \in Int, Justified(i, p)
  PROVE  Justified(i, p)'
<1> DEFINE U == Unexpired(cur)
<1>1. /\ cur \in pending /\ cur \in live /\ pending' = pending \ {cur}
      /\ start' = start /\ end' = end /\ regNum' = regNum /\ live' = live
      /\ \A j \in pending : start[cur] <= start[j]
  BY Expiry DEF Turnover, ScanStep, inputs, NextInterval
<1>2. /\ Placed' = Placed \cup {cur} /\ cur \notin Placed /\ Placed \subseteq Interval
      /\ pending \subseteq Interval /\ active \subseteq Interval
      /\ \A k \in Interval : start[k] \in Int /\ end[k] \in Int
  BY ScanStepFacts DEF Turnover, IInv, TypeOK
<1>3. start[cur] = p => U = active /\ Cardinality(U) = regNum
  BY <1>1, <1>2 DEF Justified, Covers, Unexpired
<1>4. \A k \in U : k \in Placed /\ InRegister(k) /\ start[k] <= start[cur] /\ start[cur] < end[k]
  BY Expiry DEF Turnover, ScanStep, InRegister
<1>5. ASSUME NEW j \in Placed', InRegister(j)', Covers(j, p)'
      PROVE  end'[j] <= end'[i]
  <2>1. ~isStack'[j] /\ start[j] <= p /\ p < end[j]
    BY <1>1, <1>5 DEF InRegister, Covers
  <2>2. CASE j \in Placed
    BY <1>1, <2>1, <2>2 DEF Turnover, InRegister, Covers, Justified
  <2>3. CASE j = cur
    <3>1. start[cur] = p
      BY <1>1, <1>2, <2>1, <2>3 DEF Justified
    <3>2. PICK k \in U : end[cur] <= end[k]
      BY <1>3, <2>1, <2>3, <3>1
    <3>3. end[k] <= end[i]
      BY <1>4, <3>1 DEF Justified, Covers
    <3> QED
      BY <1>1, <1>2, <1>4, <2>3, <3>2, <3>3
  <2> QED
    BY <1>2, <2>2, <2>3
<1>6. ASSUME NEW j \in pending', start'[j] = p
      PROVE  Cardinality(active') = regNum' /\ \A k \in active' : Covers(k, p)'
  <2>1. start[cur] = p
    BY <1>1, <1>2, <1>6 DEF Justified
  <2>2. start[cur] < end[cur]
    BY <1>1 DEF Turnover, ScanStep, IInv, Phases
  <2> QED
    BY <1>1, <1>2, <1>3, <1>4, <2>1, <2>2 DEF Turnover, Covers
<1>7. Pressure(p)' > regNum' /\ p \in start'[i] .. end'[i] - 1
  BY <1>1, SamePressure DEF Turnover, Justified
<1>8. \A j \in pending' : p <= start'[j]
  BY <1>1 DEF Justified
<1> QED
  BY <1>5, <1>6, <1>7, <1>8 DEF Justified

LEMMA NewlyJustified ==
  ASSUME IInv, NEW cur \in Interval, Turnover(cur), Cardinality(Unexpired(cur)) = regNum,
         NEW i \in Unexpired(cur) \cup {cur},
         \A j \in Unexpired(cur) \cup {cur} : end[j] <= end[i]
  PROVE  Justified(i, start[cur])'
<1> DEFINE U == Unexpired(cur)
           p == start[cur]
<1>1. /\ cur \in pending /\ cur \in live /\ pending' = pending \ {cur}
      /\ start' = start /\ end' = end /\ regNum' = regNum /\ live' = live
      /\ \A j \in pending : p <= start[j]
  BY Expiry DEF Turnover, ScanStep, inputs, NextInterval
<1>2. /\ Placed' = Placed \cup {cur} /\ cur \notin Placed /\ Placed \subseteq Interval
      /\ pending \subseteq Interval /\ live \subseteq Interval
      /\ \A k \in Interval : start[k] \in Int /\ end[k] \in Int
  BY ScanStepFacts DEF Turnover, IInv, TypeOK
<1>3. \A k \in U \cup {cur} : k \in live /\ start[k] <= p /\ p < end[k]
  BY <1>1, <1>2, Expiry DEF Turnover, ScanStep, IInv, TypeOK, Phases
<1>4. Pressure(p) > regNum
  <2> DEFINE C == {j \in live : Covers(j, p)}
  <2>1. IsFiniteSet(U) /\ cur \notin U /\ regNum \in Nat
    BY Expiry, BoundAssumption DEF Turnover, ScanStep, IInv, TypeOK
  <2>2. IsFiniteSet(C) /\ U \cup {cur} \subseteq C
    BY <1>2, <1>3, IntervalAssumption, FS_Subset DEF Covers
  <2> HIDE DEF U, C
  <2>3. Cardinality(U \cup {cur}) = regNum + 1
    BY <2>1, FS_AddElement, Zenon DEF U
  <2>4. Cardinality(U \cup {cur}) <= Cardinality(C)
    BY <2>2, FS_Subset
  <2>5. Cardinality(C) \in Nat
    BY <2>2, FS_CardinalityType
  <2> QED
    BY <2>1, <2>3, <2>4, <2>5 DEF C, Pressure
<1>5. ASSUME NEW j \in Placed', InRegister(j)', Covers(j, p)'
      PROVE  end'[j] <= end'[i]
  <2>1. ~isStack'[j] /\ p < end[j]
    BY <1>1, <1>5 DEF InRegister, Covers
  <2>2. j \in U \cup {cur}
    <3>1. CASE j \in Placed \ U
      <4>1. end[j] <= start[cur]
        BY <1>1, <2>1, <3>1, Expiry DEF Turnover, ScanStep
      <4> QED
        BY <1>2, <2>1, <3>1, <4>1
    <3> QED
      BY <1>2, <3>1
  <2> QED
    BY <1>1, <2>2
<1>6. Cardinality(active') = regNum' /\ \A k \in active' : Covers(k, p)'
  BY <1>1, <1>3 DEF Turnover, Covers
<1>7. Pressure(p)' > regNum' /\ p \in start'[i] .. end'[i] - 1
  BY <1>1, <1>2, <1>3, <1>4, SamePressure DEF Turnover
<1>8. p' = p
  BY <1>1
<1> QED
  BY <1>1, <1>5, <1>6, <1>7, <1>8 DEF Justified

LEMMA AllocatePressed ==
  ASSUME IInv, Pressed, NEW cur \in Interval, Allocate(cur)
  PROVE  Pressed'
<1>1. ScanStep(cur) /\ Cardinality(Unexpired(cur)) # regNum /\ isStack' = isStack
  BY DEF Allocate, ScanStep
<1>2. Turnover(cur)
  BY <1>1 DEF Turnover, Allocate
<1>3. Placed' = Placed \cup {cur} /\ ~isStack[cur]
  BY <1>1, ScanStepFacts DEF ScanStep, NextInterval, IInv, Holders
<1> SUFFICES ASSUME NEW i \in Placed', OnStack(i)'
             PROVE  \E p \in Int : Justified(i, p)'
  BY DEF Pressed
<1>4. i \in Placed /\ OnStack(i)
  BY <1>1, <1>3 DEF OnStack
<1>5. PICK p \in Int : Justified(i, p)
  BY <1>4 DEF Pressed
<1> QED
  BY <1>1, <1>2, <1>4, <1>5, JustifiedKept

LEMMA SpillActivePressed ==
  ASSUME IInv, Pressed, NEW cur \in Interval, SpillActive(cur)
  PROVE  Pressed'
<1> DEFINE U == Unexpired(cur)
<1>1. ScanStep(cur) /\ Cardinality(U) = regNum
  BY DEF SpillActive, ScanStep
<1>2. PICK spill \in U :
        /\ \A k \in U : end[k] <= end[spill]
        /\ end[spill] > end[cur]
        /\ isStack' = [isStack EXCEPT ![spill] = TRUE]
        /\ active' = (U \ {spill}) \cup {cur}
  BY DEF SpillActive, MoveToStack
<1>3. /\ Placed' = Placed \cup {cur} /\ cur \notin Placed /\ Placed \subseteq Interval
      /\ U \subseteq Placed /\ cur \notin U /\ IsFiniteSet(U) /\ regNum \in Nat
      /\ isStack \in [Interval -> BOOLEAN] /\ ~isStack[cur]
      /\ \A k \in Interval : start[k] \in Int /\ end[k] \in Int
  BY <1>1, Expiry, ScanStepFacts, BoundAssumption
  DEF ScanStep, NextInterval, IInv, TypeOK, Holders, InRegister
<1>4. Cardinality(active') = regNum
  <2> HIDE DEF U
  <2>1. IsFiniteSet(U \ {spill}) /\ Cardinality(U \ {spill}) = Cardinality(U) - 1
    BY <1>3, FS_RemoveElement
  <2>2. Cardinality((U \ {spill}) \cup {cur}) = Cardinality(U \ {spill}) + 1
    BY <1>3, <2>1, FS_AddElement, Zenon
  <2> QED
    BY <1>1, <1>2, <1>3, <2>1, <2>2
<1>5. Turnover(cur)
  BY <1>1, <1>2, <1>3, <1>4 DEF Turnover
<1> SUFFICES ASSUME NEW i \in Placed', OnStack(i)'
             PROVE  \E p \in Int : Justified(i, p)'
  BY DEF Pressed
<1>6. CASE i = spill
  <2>1. Justified(spill, start[cur])'
    BY <1>1, <1>2, <1>3, <1>5, NewlyJustified
  <2>2. start'[cur] \in Int /\ start' = start
    BY <1>1, <1>3 DEF ScanStep, inputs
  <2> QED
    BY <1>6, <2>1, <2>2
<1>7. CASE i # spill
  <2>1. i \in Placed /\ OnStack(i)
    BY <1>2, <1>3, <1>7 DEF OnStack
  <2>2. PICK p \in Int : Justified(i, p)
    BY <2>1 DEF Pressed
  <2>3. end[cur] <= end[spill]
    BY <1>2, <1>3
  <2> QED
    BY <1>5, <2>1, <2>2, <2>3, JustifiedKept
<1> QED
  BY <1>6, <1>7

LEMMA SpillCurrentPressed ==
  ASSUME IInv, Pressed, NEW cur \in Interval, SpillCurrent(cur)
  PROVE  Pressed'
<1> DEFINE U == Unexpired(cur)
<1>1. /\ ScanStep(cur) /\ Cardinality(U) = regNum
      /\ active' = U /\ isStack' = [isStack EXCEPT ![cur] = TRUE]
      /\ \A k \in U : end[k] <= end[cur]
  BY DEF SpillCurrent, ScanStep, MoveToStack
<1>2. /\ Placed' = Placed \cup {cur} /\ cur \notin Placed /\ Placed \subseteq Interval
      /\ isStack \in [Interval -> BOOLEAN]
      /\ \A k \in Interval : start[k] \in Int /\ end[k] \in Int
  BY <1>1, ScanStepFacts DEF IInv, TypeOK
<1>3. Turnover(cur) /\ isStack'[cur]
  BY <1>1, <1>2 DEF Turnover
<1> SUFFICES ASSUME NEW i \in Placed', OnStack(i)'
             PROVE  \E p \in Int : Justified(i, p)'
  BY DEF Pressed
<1>4. CASE i = cur
  <2>1. Justified(cur, start[cur])'
    BY <1>1, <1>2, <1>3, NewlyJustified
  <2>2. start'[cur] \in Int /\ start' = start
    BY <1>1, <1>2 DEF ScanStep, inputs
  <2> QED
    BY <1>4, <2>1, <2>2
<1>5. CASE i # cur
  <2>1. i \in Placed /\ OnStack(i)
    BY <1>1, <1>2, <1>5 DEF OnStack
  <2>2. PICK p \in Int : Justified(i, p)
    BY <2>1 DEF Pressed
  <2> QED
    BY <1>3, <2>1, <2>2, JustifiedKept
<1> QED
  BY <1>4, <1>5

LEMMA PressedUnchanged ==
  ASSUME Pressed, UNCHANGED <<inputs, live, pending, active, isStack>>, Placed' = Placed
  PROVE  Pressed'
<1> USE DEF inputs
<1>1. \A p \in Int : Pressure(p)' = Pressure(p)
  BY DEF Pressure, Covers
<1>2. ASSUME NEW i \in Placed, NEW p \in Int, Justified(i, p)
      PROVE  Justified(i, p)'
  <2>1. \A j \in Placed' : InRegister(j)' /\ Covers(j, p)' => end'[j] <= end'[i]
    BY <1>2 DEF Justified, InRegister, Covers
  <2>2. \A j \in pending' : start'[j] = p =>
          Cardinality(active') = regNum' /\ \A k \in active' : Covers(k, p)'
    BY <1>2 DEF Justified, Covers
  <2>3. /\ p \in start'[i] .. end'[i] - 1 /\ Pressure(p)' > regNum'
        /\ \A j \in pending' : p <= start'[j]
    BY <1>1, <1>2 DEF Justified
  <2> QED
    BY <2>1, <2>2, <2>3 DEF Justified
<1> QED
  BY <1>2 DEF Pressed, OnStack

LEMMA PressedNext == IInv /\ Pressed /\ [Next]_vars => Pressed'
<1> SUFFICES ASSUME IInv, Pressed, [Next]_vars PROVE Pressed'
  OBVIOUS
<1>1. CASE PrepareIntervals
  BY <1>1 DEF PrepareIntervals, Pressed, Placed
<1>2. CASE Scan
  BY <1>2, AllocatePressed, SpillActivePressed, SpillCurrentPressed DEF Scan
<1>3. CASE Return
  BY <1>3, PressedUnchanged DEF Return, Placed
<1>4. CASE UNCHANGED vars
  BY <1>4, PressedUnchanged DEF vars, inputs, Placed
<1> QED
  BY <1>1, <1>2, <1>3, <1>4 DEF Next, Terminated

(***************************************************************************)
(* A value lives in memory only if some point of its range has more live   *)
(* values than there are registers, none of which holds its register for   *)
(* longer (SpillAtInterval).                                               *)
(***************************************************************************)
THEOREM SpillsJustified == Spec => []SpillJustified
<1>1. Init => Pressed
  BY DEF Init, Pressed, Placed
<1>2. Pressed => SpillJustified
  BY DEF Pressed, Justified, SpillJustified
<1> QED
  BY <1>1, <1>2, PressedNext, Inductive, PTL DEF Spec

(***************************************************************************)
(* The refinement: every iteration places one interval, and moves at most  *)
(* one other from its register to the stack.                               *)
(***************************************************************************)
LEMMA PlaceValues ==
  ASSUME NEW i \in Interval
  PROVE  /\ i \notin Placed => place[i] = NoPlace
         /\ InRegister(i) => place[i] = <<"reg", location[i]>>
         /\ OnStack(i) => place[i] = <<"stack", location[i]>>
         /\ place \in [Interval -> {place[j] : j \in Interval}]
BY DEF place, InRegister, OnStack

LEMMA ExclusivePlaces == IInv => Abstract!Exclusive
<1> SUFFICES ASSUME IInv, NEW i \in Interval, NEW j \in Interval,
                    i # j, Overlap(i, j), place[i] # NoPlace
             PROVE  place[i] # place[j]
  BY DEF Abstract!Exclusive, Abstract!Overlap, Overlap
<1>1. i \in Placed /\ place[i] = <<IF isStack[i] THEN "stack" ELSE "reg", location[i]>>
  BY DEF place
<1>2. CASE j \notin Placed
  BY <1>2 DEF place
<1>3. CASE j \in Placed
  <2>1. location[i] # location[j] \/ isStack[i] # isStack[j]
    BY <1>1, <1>3 DEF IInv, NoSharing
  <2>2. isStack[i] \in BOOLEAN /\ isStack[j] \in BOOLEAN
    BY DEF IInv, TypeOK
  <2>3. place[j] = <<IF isStack[j] THEN "stack" ELSE "reg", location[j]>>
    BY <1>3 DEF place
  <2> QED
    BY <1>1, <2>1, <2>2, <2>3
<1> QED
  BY <1>2, <1>3

LEMMA ExclusiveNext == IInv' => Abstract!Exclusive'
BY ExclusivePlaces, PTL

LEMMA InitImplements == Init => Abstract!Init
<1> SUFFICES ASSUME Init PROVE Abstract!Init
  OBVIOUS
<1>1. place = [i \in Interval |-> NoPlace]
  BY DEF Init, place, Placed
<1> QED
  BY <1>1, BoundAssumption DEF Init, Abstract!Init

LEMMA AllocateImplements ==
  ASSUME IInv, IInv', NEW cur \in Interval, Allocate(cur)
  PROVE  Abstract!Next
<1>1. ScanStep(cur)
  BY DEF Allocate, ScanStep
<1>2. Placed' = Placed \cup {cur} /\ cur \notin Placed /\ Placed \subseteq Interval
  BY <1>1, ScanStepFacts
<1>3. /\ isStack' = isStack /\ ~isStack[cur]
      /\ location' = [location EXCEPT ![cur] = location'[cur]]
      /\ location'[cur] \in 0 .. regNum - 1
  <2>1. isStack' = isStack /\ ~isStack[cur]
    BY <1>1 DEF Allocate, ScanStep, NextInterval, IInv, Holders
  <2>2. location' = [location EXCEPT ![cur] = location'[cur]]
    BY DEF Allocate, IInv, TypeOK
  <2>3. location'[cur] < regNum'
    BY <1>2, <2>1 DEF IInv, BitmapMatchesActive, InRegister
  <2>4. location'[cur] \in Nat /\ regNum' = regNum /\ regNum \in Nat
    BY BoundAssumption DEF IInv, TypeOK, Allocate, inputs
  <2> QED
    BY <2>1, <2>2, <2>3, <2>4
<1>4. place[cur] = NoPlace /\ place'[cur] = <<"reg", location'[cur]>>
  BY <1>2, <1>3 DEF place
<1>5. place' = [place EXCEPT ![cur] = place'[cur]]
  BY <1>2, <1>3 DEF place, IInv, TypeOK
<1>6. Abstract!Put(cur)
  BY <1>3, <1>4, <1>5 DEF Abstract!Put, Abstract!Registers
<1> QED
  BY <1>6, ExclusiveNext DEF Abstract!Next, Allocate, inputs

LEMMA SpillActiveImplements ==
  ASSUME IInv, IInv', NEW cur \in Interval, SpillActive(cur)
  PROVE  Abstract!Next
<1>1. ScanStep(cur)
  BY DEF SpillActive, ScanStep
<1>2. PICK spill \in Unexpired(cur) :
        /\ location' = [location EXCEPT ![cur] = location[spill], ![spill] = slot]
        /\ MoveToStack(spill)
  BY DEF SpillActive
<1>3. Placed' = Placed \cup {cur} /\ cur \notin Placed /\ Placed \subseteq Interval
  BY <1>1, ScanStepFacts
<1>4. /\ spill \in Placed /\ spill # cur /\ ~isStack[spill] /\ ~isStack[cur]
      /\ location[spill] \in 0 .. regNum - 1
  <2>1. InRegister(spill)
    BY <1>1, Expiry DEF ScanStep
  <2>2. ~isStack[cur]
    BY <1>1 DEF ScanStep, NextInterval, IInv, Holders
  <2>3. location[spill] \in Nat /\ location[spill] < regNum /\ regNum \in Nat
    BY <1>3, <2>1, BoundAssumption DEF InRegister, IInv, TypeOK, BitmapMatchesActive
  <2> QED
    BY <1>3, <2>1, <2>2, <2>3 DEF InRegister
<1>5. /\ location'[cur] = location[spill] /\ location'[spill] = slot /\ slot \in Nat
      /\ ~isStack'[cur] /\ isStack'[spill]
      /\ \A i \in Interval \ {cur, spill} : location'[i] = location[i] /\ isStack'[i] = isStack[i]
  BY <1>2, <1>3, <1>4 DEF MoveToStack, IInv, TypeOK
<1>6. /\ place[cur] = NoPlace /\ place[spill] = <<"reg", location[spill]>>
      /\ place'[cur] = place[spill] /\ place'[spill] = <<"stack", slot>>
      /\ \A i \in Interval \ {cur, spill} : place'[i] = place[i]
  BY <1>3, <1>4, <1>5 DEF place
<1>7. place' = [place EXCEPT ![cur] = place[spill], ![spill] = place'[spill]]
  BY <1>3, <1>4, <1>6 DEF place
<1>8. Abstract!Displace(cur, spill)
  BY <1>4, <1>5, <1>6, <1>7 DEF Abstract!Displace, Abstract!Registers, Abstract!StackSlots
<1> QED
  BY <1>3, <1>4, <1>8, ExclusiveNext DEF Abstract!Next, SpillActive, inputs

LEMMA SpillCurrentImplements ==
  ASSUME IInv, IInv', NEW cur \in Interval, SpillCurrent(cur)
  PROVE  Abstract!Next
<1>1. ScanStep(cur)
  BY DEF SpillCurrent, ScanStep
<1>2. Placed' = Placed \cup {cur} /\ cur \notin Placed /\ Placed \subseteq Interval
  BY <1>1, ScanStepFacts
<1>3. /\ location'[cur] = slot /\ isStack'[cur] /\ slot \in Nat
      /\ \A i \in Interval \ {cur} : location'[i] = location[i] /\ isStack'[i] = isStack[i]
  BY DEF SpillCurrent, MoveToStack, IInv, TypeOK
<1>4. place[cur] = NoPlace /\ place'[cur] = <<"stack", slot>>
  BY <1>2, <1>3 DEF place
<1>5. place' = [place EXCEPT ![cur] = place'[cur]]
  BY <1>2, <1>3 DEF place
<1>6. Abstract!Put(cur)
  BY <1>3, <1>4, <1>5 DEF Abstract!Put, Abstract!StackSlots
<1> QED
  BY <1>6, ExclusiveNext DEF Abstract!Next, SpillCurrent, inputs

LEMMA StepImplements ==
  IInv /\ IInv' /\ [Next]_vars => [Abstract!Next]_(Abstract!vars)
<1> SUFFICES ASSUME IInv, IInv', [Next]_vars PROVE [Abstract!Next]_(Abstract!vars)
  OBVIOUS
<1>1. CASE PrepareIntervals
  <2>1. Placed = {} /\ Placed' = {}
    BY <1>1 DEF PrepareIntervals, Placed
  <2> QED
    BY <1>1, <2>1 DEF PrepareIntervals, Abstract!vars, inputs, place
<1>2. CASE Scan
  BY <1>2, AllocateImplements, SpillActiveImplements, SpillCurrentImplements DEF Scan
<1>3. CASE Return
  <2>1. Placed' = Placed
    BY <1>3 DEF Return, Placed
  <2> QED
    BY <1>3, <2>1 DEF Return, Abstract!vars, inputs, place
<1>4. CASE UNCHANGED vars
  BY <1>4 DEF vars, inputs, Abstract!vars, place, Placed
<1> QED
  BY <1>1, <1>2, <1>3, <1>4 DEF Next, Terminated

(***************************************************************************)
(* Linear scan implements the abstract allocator of Placement.             *)
(***************************************************************************)
THEOREM Implements == Spec => ImplementsPlacement
<1> QED
  BY InitImplements, StepImplements, Inductive, PTL
  DEF Spec, ImplementsPlacement, Abstract!Spec
=============================================================================
