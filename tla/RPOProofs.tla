------------------------------ MODULE RPOProofs ------------------------------
(***************************************************************************)
(* Theorems about the reverse post-order pass, for every control flow      *)
(* graph of any size.                                                      *)
(***************************************************************************)
EXTENDS RPO, ControlFlowProofs

(***************************************************************************)
(* The inductive invariant, in named parts.                                *)
(***************************************************************************)
OnStack(b)  == \E i \in 1 .. Len(stack) : stack[i].block = b
Finished(b) == \E i \in 1 .. Len(result) : result[i] = b

\* Before the pass starts, and once it is over.
Phases ==
  /\ pc = "start" => visited = {} /\ stack = <<>> /\ result = <<>>
  /\ pc # "start" => Root \in visited
  /\ pc = "done" => stack = <<>> /\ rpo = Reverse(result)
  /\ pc # "done" => rpo = <<>>

\* Only blocks that the entry reaches are marked.
OnlyReached == \A S \in SUBSET Block : Closed(succ, present, Root, S) => visited \subseteq S

\* A marked block is on the stack or in the result, in one place.
Partition ==
  /\ \A b \in Block : b \in visited <=> OnStack(b) \/ Finished(b)
  /\ \A b \in Block : ~(OnStack(b) /\ Finished(b))
  /\ \A i, j \in 1 .. Len(stack) : stack[i].block = stack[j].block => i = j
  /\ \A i, j \in 1 .. Len(result) : result[i] = result[j] => i = j

\* The successors already looked at are marked.
Explored ==
  /\ \A i \in 1 .. Len(stack) : \A k \in DOMAIN succ[stack[i].block] :
       k < stack[i].next /\ succ[stack[i].block][k] \in present
         => succ[stack[i].block][k] \in visited
  /\ \A i \in 1 .. Len(result) : SuccSet(succ, result[i]) \cap present \subseteq visited

\* The entry is the outermost call and the last to return.
EntryLast ==
  /\ stack # <<>> => stack[1].block = Root
  /\ pc # "start" /\ stack = <<>> => result # <<>> /\ result[Len(result)] = Root

IInv == TypeOK /\ Phases /\ OnlyReached /\ Partition /\ Explored /\ EntryLast

(***************************************************************************)
(* The stack operations.                                                   *)
(***************************************************************************)
LEMMA AdvancedFacts ==
  ASSUME stack \in Seq(Frame), stack # <<>>
  PROVE  /\ Advanced \in Seq(Frame) /\ Len(Advanced) = Len(stack) /\ Len(stack) \in Nat \ {0}
         /\ \A i \in 1 .. Len(stack) : Advanced[i].block = stack[i].block
         /\ \A i \in 1 .. Len(stack) : i # Len(stack) => Advanced[i] = stack[i]
         /\ Advanced[Len(stack)].next = Top.next + 1
<1> DEFINE n == Len(stack)
           moved == [Top EXCEPT !.next = @ + 1]
<1>1. n \in Nat \ {0}
  OBVIOUS
<1>2. stack[n] \in Frame /\ Top = stack[n]
  BY <1>1 DEF Top
<1>3. moved \in Frame /\ moved.block = stack[n].block /\ moved.next = stack[n].next + 1
  BY <1>2 DEF Frame
<1>4. Advanced = [stack EXCEPT ![n] = moved]
  BY DEF Advanced
<1> HIDE DEF n, moved
<1>5. Advanced \in Seq(Frame) /\ Len(Advanced) = Len(stack)
  BY <1>1, <1>3, <1>4 DEF n
<1>6. \A i \in 1 .. Len(stack) : Advanced[i] = IF i = n THEN moved ELSE stack[i]
  BY <1>1, <1>4 DEF n
<1> QED
  BY <1>1, <1>3, <1>5, <1>6 DEF n, Top

LEMMA SuccListType ==
  ASSUME TypeOK, NEW b \in Block
  PROVE  /\ succ[b] \in Seq(Block)
         /\ DOMAIN succ[b] = 1 .. Len(succ[b])
         /\ \A k \in DOMAIN succ[b] : succ[b][k] \in Block
<1>1. succ[b] \in SuccLists
  BY DEF TypeOK, Cfgs
<1>2. CASE succ[b] = <<>>
  BY <1>2
<1>3. CASE \E a \in Block : succ[b] = <<a>>
  BY <1>3
<1>4. CASE \E a, c \in Block : succ[b] = <<a, c>>
  <2>1. PICK a \in Block, c \in Block : succ[b] = <<a, c>>
    BY <1>4
  <2>2. Len(succ[b]) = 2 /\ succ[b][1] = a /\ succ[b][2] = c /\ succ[b] \in Seq(Block)
    BY <2>1
  <2> QED
    BY <2>1, <2>2
<1> QED
  BY <1>1, <1>2, <1>3, <1>4 DEF SuccLists

LEMMA InitInv == Init => IInv
<1> SUFFICES ASSUME Init PROVE IInv
  OBVIOUS
<1>1. TypeOK
  BY DEF Init, TypeOK
<1> QED
  BY <1>1 DEF Init, IInv, Phases, OnlyReached, Partition, Explored, EntryLast, OnStack, Finished

LEMMA StartInv == IInv /\ Start => IInv'
<1> SUFFICES ASSUME IInv, Start PROVE IInv'
  OBVIOUS
<1> USE DEF Start
<1>1. Root \in Block /\ Call(Root) \in Frame /\ Call(Root).block = Root /\ Call(Root).next = 1
  BY SizeAssumption DEF Root, Block, Call, Frame
<1>2. Len(stack') = 1 /\ stack'[1] = Call(Root) /\ stack' \in Seq(Frame) /\ result' = <<>>
  BY <1>1 DEF IInv, Phases
<1>3. TypeOK'
  BY <1>1, <1>2 DEF IInv, TypeOK
<1>4. Phases'
  BY DEF IInv, Phases
<1>5. OnlyReached'
  BY DEF OnlyReached, Closed
<1>6. \A b \in Block : OnStack(b)' <=> b = Root
  BY <1>1, <1>2 DEF OnStack
<1>7. Partition'
  BY <1>1, <1>2, <1>6 DEF Partition, Finished
<1>8. Explored'
  <2>1. \A k \in DOMAIN succ[Root] : k >= 1
    BY <1>1, SuccListType DEF IInv
  <2> QED
    BY <1>1, <1>2, <2>1, SuccListType DEF Explored, IInv
<1>9. EntryLast'
  BY <1>1, <1>2 DEF EntryLast
<1> QED
  BY <1>3, <1>4, <1>5, <1>7, <1>8, <1>9 DEF IInv

LEMMA SkipInv == IInv /\ Skip => IInv'
<1> SUFFICES ASSUME IInv, Skip PROVE IInv'
  OBVIOUS
<1>1. /\ stack # <<>> /\ stack \in Seq(Frame) /\ stack' = Advanced
      /\ NextSucc \in visited \/ NextSucc \notin present
      /\ UNCHANGED <<succ, present, visited, result, rpo, pc>> /\ pc = "visit"
  BY DEF Skip, HasNext, Turned, IInv, TypeOK
<1>2. /\ Len(stack') = Len(stack) /\ Len(stack) \in Nat \ {0} /\ stack' \in Seq(Frame)
      /\ \A i \in 1 .. Len(stack) : stack'[i].block = stack[i].block
      /\ \A i \in 1 .. Len(stack) : i # Len(stack) => stack'[i] = stack[i]
      /\ stack'[Len(stack)].next = Top.next + 1
  BY <1>1, AdvancedFacts
<1>3. TypeOK'
  BY <1>1, <1>2 DEF IInv, TypeOK
<1>4. Phases' /\ OnlyReached'
  BY <1>1 DEF IInv, Phases, OnlyReached
<1>5. \A b \in Block : (OnStack(b)' <=> OnStack(b)) /\ (Finished(b)' <=> Finished(b))
  BY <1>1, <1>2 DEF OnStack, Finished
<1>6. Partition'
  BY <1>1, <1>2, <1>5 DEF IInv, Partition
<1>7. Explored'
  <2> SUFFICES ASSUME NEW i \in 1 .. Len(stack), NEW k \in DOMAIN succ[stack[i].block],
                      k < stack'[i].next, succ[stack[i].block][k] \in present
               PROVE  succ[stack[i].block][k] \in visited
    BY <1>1, <1>2 DEF IInv, Explored
  <2>1. stack[i].block \in Block /\ stack[i].next \in Nat /\ k \in Nat
    <3>1. stack[i] \in Frame
      BY <1>1, <1>2
    <3>2. stack[i].block \in Block /\ stack[i].next \in Nat \ {0}
      BY <3>1 DEF Frame
    <3> QED
      BY <3>2, SuccListType DEF IInv
  <2>2. CASE k < stack[i].next
    BY <2>2 DEF IInv, Explored
  <2>3. CASE ~(k < stack[i].next)
    <3>1. i = Len(stack) /\ k = Top.next
      BY <2>1, <2>3, <1>2 DEF Top
    <3> QED
      BY <3>1, <1>1 DEF NextSucc, Top
  <2> QED
    BY <2>2, <2>3
<1>8. EntryLast'
  BY <1>1, <1>2 DEF IInv, EntryLast
<1> QED
  BY <1>3, <1>4, <1>6, <1>7, <1>8 DEF IInv

LEMMA EnterInv == IInv /\ Enter => IInv'
<1> SUFFICES ASSUME IInv, Enter PROVE IInv'
  OBVIOUS
<1> DEFINE n == Len(stack)
           c == NextSucc
<1>1. /\ stack # <<>> /\ stack \in Seq(Frame) /\ Top.next <= Len(succ[Top.block])
      /\ c \notin visited /\ c \in present
      /\ stack' = Append(Advanced, Call(c)) /\ visited' = visited \cup {c}
      /\ UNCHANGED <<succ, present, result, rpo, pc>> /\ pc = "visit"
  BY DEF Enter, HasNext, Turned, IInv, TypeOK
<1>2. /\ Advanced \in Seq(Frame) /\ Len(Advanced) = n /\ n \in Nat \ {0}
      /\ \A i \in 1 .. n : Advanced[i].block = stack[i].block
      /\ \A i \in 1 .. n : i # n => Advanced[i] = stack[i]
      /\ Advanced[n].next = Top.next + 1
  BY <1>1, AdvancedFacts
<1>3. c \in Block /\ Call(c) \in Frame /\ Call(c).block = c /\ Call(c).next = 1
  BY <1>1 DEF IInv, TypeOK, Call, Frame
<1>4. /\ stack' \in Seq(Frame) /\ Len(stack') = n + 1 /\ stack'[n + 1] = Call(c)
      /\ \A i \in 1 .. n : stack'[i] = Advanced[i]
  <2> HIDE DEF n, c
  <2> QED
    BY <1>1, <1>2, <1>3
<1>5. \A i \in 1 .. n : stack[i] \in Frame /\ stack[i].block \in Block /\ stack[i].next \in Nat \ {0}
  <2>1. \A i \in 1 .. n : stack[i] \in Frame
    BY <1>1, <1>2
  <2> QED
    BY <2>1 DEF Frame
<1>6. c \in SuccSet(succ, Top.block)
  <2>1. Top.block \in Block /\ Top.next \in Nat \ {0}
    BY <1>2, <1>5 DEF Top
  <2>2. Top.next \in DOMAIN succ[Top.block]
    BY <2>1, <1>1, SuccListType DEF IInv
  <2> QED
    BY <2>2 DEF NextSucc, SuccSet
<1> HIDE DEF n, c
<1>7. TypeOK'
  BY <1>1, <1>3, <1>4 DEF IInv, TypeOK
<1>8. Phases'
  BY <1>1 DEF IInv, Phases
<1>9. \A b \in Block : (OnStack(b)' <=> OnStack(b) \/ b = c) /\ (Finished(b)' <=> Finished(b))
  <2>1. \A b \in Block : OnStack(b)' <=> \E i \in 1 .. n + 1 : stack'[i].block = b
    BY <1>4 DEF OnStack
  <2>2. \A i \in 1 .. n : stack'[i].block = stack[i].block
    BY <1>2, <1>4
  <2> QED
    BY <1>1, <1>2, <1>3, <1>4, <2>1, <2>2 DEF OnStack, Finished, n
<1>10. ~OnStack(c) /\ ~Finished(c)
  BY <1>1, <1>3 DEF IInv, Partition
<1>11. Partition'
  <2>1. \A i, j \in 1 .. n + 1 : stack'[i].block = stack'[j].block => i = j
    BY <1>2, <1>3, <1>4, <1>10 DEF IInv, Partition, OnStack, n
  <2> QED
    BY <1>1, <1>3, <1>4, <1>9, <1>10, <2>1 DEF IInv, Partition
<1>12. Explored'
  <2>1. ASSUME NEW i \in 1 .. n, NEW k \in DOMAIN succ[stack[i].block],
               k < Advanced[i].next, succ[stack[i].block][k] \in present
        PROVE  succ[stack[i].block][k] \in visited'
    <3>1. k \in Nat
      BY <1>5, SuccListType DEF IInv
    <3>2. CASE k < stack[i].next
      BY <3>2, <2>1, <1>1 DEF IInv, Explored, n
    <3>3. CASE ~(k < stack[i].next)
      <4>1. i = n /\ k = Top.next
        BY <3>1, <3>3, <2>1, <1>2, <1>5 DEF Top, n
      <4> QED
        BY <4>1, <1>1 DEF c, NextSucc, Top, n
    <3> QED
      BY <3>2, <3>3
  <2>2. \A k \in DOMAIN succ[c] : ~(k < 1)
    BY <1>3, SuccListType DEF IInv
  <2>3. \A i \in 1 .. n + 1 : \A k \in DOMAIN succ[stack'[i].block] :
          k < stack'[i].next /\ succ[stack'[i].block][k] \in present
            => succ[stack'[i].block][k] \in visited'
    <3> TAKE i \in 1 .. n + 1
    <3>1. CASE i \in 1 .. n
      BY <3>1, <2>1, <1>2, <1>4
    <3>2. CASE i = n + 1
      BY <3>2, <2>2, <1>3, <1>4
    <3> QED
      BY <3>1, <3>2, <1>2
  <2>4. \A i \in 1 .. Len(result) : SuccSet(succ, result[i]) \cap present \subseteq visited'
    BY <1>1 DEF IInv, Explored
  <2> QED
    BY <1>1, <1>4, <2>3, <2>4 DEF Explored
<1>13. OnlyReached'
  <2> SUFFICES ASSUME NEW S \in SUBSET Block, Closed(succ, present, Root, S)
               PROVE  c \in S
    BY <1>1 DEF IInv, OnlyReached
  <2>1. Top.block \in visited
    BY <1>2, <1>5 DEF IInv, Partition, OnStack, Top, n
  <2>2. Top.block \in S
    BY <2>1 DEF IInv, OnlyReached
  <2> QED
    BY <1>1, <1>3, <1>6, <2>2 DEF Closed
<1>14. EntryLast'
  BY <1>1, <1>2, <1>4 DEF IInv, EntryLast
<1> QED
  BY <1>7, <1>8, <1>11, <1>12, <1>13, <1>14 DEF IInv

LEMMA ReturnInv == IInv /\ Return => IInv'
<1> SUFFICES ASSUME IInv, Return PROVE IInv'
  OBVIOUS
<1> DEFINE n == Len(stack)
           m == Len(result)
           c == Top.block
<1>1. /\ stack # <<>> /\ stack \in Seq(Frame) /\ result \in Seq(Block)
      /\ ~(Top.next <= Len(succ[c]))
      /\ result' = Append(result, c) /\ stack' = SubSeq(stack, 1, n - 1)
      /\ UNCHANGED <<succ, present, visited, rpo, pc>> /\ pc = "visit"
  BY DEF Return, HasNext, Push, IInv, TypeOK
<1>2. n \in Nat \ {0} /\ m \in Nat
  BY <1>1
<1>3. /\ stack' \in Seq(Frame) /\ Len(stack') = n - 1
      /\ \A i \in 1 .. n - 1 : stack'[i] = stack[i]
  <2> HIDE DEF c
  <2>1. n - 1 \in Nat /\ 1 .. n - 1 \subseteq 1 .. n /\ n = Len(stack)
    BY <1>2
  <2>2. \A i \in 1 .. n : stack[i] \in Frame
    BY <1>1
  <2> HIDE DEF n
  <2>3. stack' = [i \in 1 .. n - 1 |-> stack[i]]
    BY <1>1, <2>1
  <2> QED
    BY <2>1, <2>2, <2>3
<1>4. stack[n] \in Frame /\ Top = stack[n] /\ Top \in Frame
  BY <1>1, <1>2 DEF Top
<1>5. c \in Block /\ Top.next \in Nat \ {0}
  BY <1>4 DEF Frame
<1> HIDE DEF n, m, c
<1>6. /\ result' \in Seq(Block) /\ Len(result') = m + 1 /\ result'[m + 1] = c
      /\ \A i \in 1 .. m : result'[i] = result[i]
  BY <1>1, <1>2, <1>5 DEF m
<1>7. stack[n].block = c /\ OnStack(c) /\ c \in visited /\ ~Finished(c)
  <2>1. stack[n].block = c
    BY <1>4 DEF c
  <2>2. OnStack(c)
    BY <2>1, <1>2 DEF OnStack, n
  <2> QED
    BY <2>1, <2>2, <1>5 DEF IInv, Partition
<1>8. TypeOK'
  BY <1>1, <1>3, <1>6 DEF IInv, TypeOK
<1>9. Phases'
  BY <1>1 DEF IInv, Phases
<1>10. OnlyReached'
  BY <1>1 DEF IInv, OnlyReached
<1>11. \A b \in Block : OnStack(b)' <=> OnStack(b) /\ b # c
  <2>1. \A b \in Block : OnStack(b)' <=> \E i \in 1 .. n - 1 : stack[i].block = b
    BY <1>3 DEF OnStack
  <2>2. \A i \in 1 .. n - 1 : stack[i].block # c
    BY <1>2, <1>7 DEF IInv, Partition, n
  <2>3. \A i \in 1 .. n : i \in 1 .. n - 1 \/ i = n
    BY <1>2
  <2>4. 1 .. n - 1 \subseteq 1 .. n
    BY <1>2
  <2> QED
    BY <2>1, <2>2, <2>3, <2>4, <1>7 DEF OnStack, n
<1>12. \A b \in Block : Finished(b)' <=> Finished(b) \/ b = c
  <2>1. \A b \in Block : Finished(b)' <=> \E i \in 1 .. m + 1 : result'[i] = b
    BY <1>6 DEF Finished
  <2> QED
    BY <2>1, <1>2, <1>6 DEF Finished, m
<1>13. Partition'
  <2>1. \A i, j \in 1 .. n - 1 : stack'[i].block = stack'[j].block => i = j
    BY <1>2, <1>3 DEF IInv, Partition, n
  <2>2. \A i, j \in 1 .. m + 1 : result'[i] = result'[j] => i = j
    BY <1>2, <1>6, <1>7 DEF IInv, Partition, Finished, m
  <2>3. \A b \in Block : (b \in visited <=> OnStack(b)' \/ Finished(b)') /\ ~(OnStack(b)' /\ Finished(b)')
    BY <1>7, <1>11, <1>12 DEF IInv, Partition
  <2> QED
    BY <1>1, <1>3, <1>6, <2>1, <2>2, <2>3 DEF Partition
<1>14. Explored'
  <2>1. SuccSet(succ, c) \cap present \subseteq visited
    <3> SUFFICES ASSUME NEW k \in DOMAIN succ[c], succ[c][k] \in present
                 PROVE  succ[c][k] \in visited
      BY DEF SuccSet
    <3>1. k < Top.next /\ Len(succ[c]) \in Nat
      BY <1>1, <1>5, SuccListType DEF IInv
    <3> QED
      BY <3>1, <1>2, <1>4, <1>7 DEF IInv, Explored, n
  <2>2. \A i \in 1 .. n - 1 : i \in 1 .. n
    BY <1>2
  <2>3. \A i \in 1 .. n - 1 : \A k \in DOMAIN succ[stack'[i].block] :
          k < stack'[i].next /\ succ[stack'[i].block][k] \in present
            => succ[stack'[i].block][k] \in visited
    BY <1>3, <2>2 DEF IInv, Explored, n
  <2>4. \A i \in 1 .. m + 1 : SuccSet(succ, result'[i]) \cap present \subseteq visited
    <3> TAKE i \in 1 .. m + 1
    <3>1. CASE i \in 1 .. m
      BY <3>1, <1>6 DEF IInv, Explored, m
    <3>2. CASE i = m + 1
      BY <3>2, <2>1, <1>6
    <3> QED
      BY <3>1, <3>2, <1>2
  <2> QED
    BY <1>1, <1>3, <1>6, <2>3, <2>4 DEF Explored
<1>15. EntryLast'
  <2>1. CASE n = 1
    BY <2>1, <1>1, <1>2, <1>3, <1>6, <1>7 DEF IInv, EntryLast, n
  <2>2. CASE n # 1
    <3>1. n - 1 \in Nat \ {0} /\ stack'[1] = stack[1] /\ stack' # <<>>
      BY <2>2, <1>2, <1>3
    <3> QED
      BY <3>1, <1>1 DEF IInv, EntryLast
  <2> QED
    BY <2>1, <2>2
<1> QED
  BY <1>8, <1>9, <1>10, <1>13, <1>14, <1>15 DEF IInv

LEMMA ReverseFacts ==
  ASSUME NEW S, NEW s \in Seq(S)
  PROVE  /\ Reverse(s) \in Seq(S) /\ Len(Reverse(s)) = Len(s) /\ Len(s) \in Nat
         /\ \A i \in 1 .. Len(s) : Reverse(s)[i] = s[Len(s) - i + 1]
<1>1. Len(s) \in Nat /\ \A i \in 1 .. Len(s) : Len(s) - i + 1 \in 1 .. Len(s) /\ s[i] \in S
  OBVIOUS
<1>2. Reverse(s) = [i \in 1 .. Len(s) |-> s[Len(s) - i + 1]]
  BY DEF Reverse
<1> QED
  BY <1>1, <1>2

LEMMA FinishInv == IInv /\ Finish => IInv'
<1> SUFFICES ASSUME IInv, Finish PROVE IInv'
  OBVIOUS
<1>1. /\ stack = <<>> /\ rpo' = Reverse(result) /\ pc = "visit" /\ pc' = "done"
      /\ UNCHANGED <<succ, present, visited, stack, result>> /\ result \in Seq(Block)
  BY DEF Finish, IInv, TypeOK
<1>2. TypeOK'
  BY <1>1, ReverseFacts DEF IInv, TypeOK
<1>3. Phases' /\ OnlyReached' /\ EntryLast'
  BY <1>1 DEF IInv, Phases, OnlyReached, EntryLast
<1>4. Partition' /\ Explored'
  BY <1>1 DEF IInv, Partition, Explored, OnStack, Finished
<1> QED
  BY <1>2, <1>3, <1>4 DEF IInv

LEMMA NextInv == IInv /\ [Next]_vars => IInv'
<1> SUFFICES ASSUME IInv, [Next]_vars PROVE IInv'
  OBVIOUS
<1>1. CASE Step
  BY <1>1, StartInv, SkipInv, EnterInv, ReturnInv, FinishInv DEF Step
<1>2. CASE UNCHANGED vars
  <2>1. UNCHANGED <<succ, present, visited, stack, result, rpo, pc>>
    BY <1>2 DEF vars
  <2>2. TypeOK' /\ Phases' /\ OnlyReached' /\ EntryLast'
    BY <2>1 DEF IInv, TypeOK, Phases, OnlyReached, EntryLast
  <2>3. Partition' /\ Explored'
    BY <2>1 DEF IInv, Partition, Explored, OnStack, Finished
  <2> QED
    BY <2>2, <2>3 DEF IInv
<1> QED
  BY <1>1, <1>2 DEF Next, Terminated

LEMMA Inductive == Spec => []IInv
<1> QED
  BY InitInv, NextInv, PTL DEF Spec

(***************************************************************************)
(* The pass's data stays well formed.                                      *)
(***************************************************************************)
THEOREM TypeCorrect == Spec => []TypeOK
<1>1. IInv => TypeOK
  BY DEF IInv
<1> QED
  BY <1>1, Inductive, PTL

LEMMA InvNoRepeats == IInv => NoRepeats
<1> SUFFICES ASSUME IInv PROVE NoRepeats
  OBVIOUS
<1>1. CASE pc # "done"
  BY <1>1 DEF IInv, Phases, NoRepeats
<1>2. CASE pc = "done"
  <2>1. rpo = Reverse(result) /\ result \in Seq(Block)
    BY <1>2 DEF IInv, Phases, TypeOK
  <2> SUFFICES ASSUME NEW i \in 1 .. Len(rpo), NEW j \in 1 .. Len(rpo), rpo[i] = rpo[j]
               PROVE  i = j
    BY DEF NoRepeats
  <2>2. /\ Len(result) \in Nat /\ i \in 1 .. Len(result) /\ j \in 1 .. Len(result)
        /\ result[Len(result) - i + 1] = result[Len(result) - j + 1]
    BY <2>1, ReverseFacts
  <2>3. Len(result) - i + 1 \in 1 .. Len(result) /\ Len(result) - j + 1 \in 1 .. Len(result)
    BY <2>2
  <2>4. Len(result) - i + 1 = Len(result) - j + 1
    BY <2>2, <2>3 DEF IInv, Partition
  <2> QED
    BY <2>2, <2>4
<1> QED
  BY <1>1, <1>2

(***************************************************************************)
(* No block is listed twice in the reverse post-order.                     *)
(***************************************************************************)
THEOREM NeverRepeats == Spec => []NoRepeats
BY InvNoRepeats, Inductive, PTL

(***************************************************************************)
(* The order holds exactly the blocks reached from the entry through       *)
(* blocks of the graph, each once and the entry first.                     *)
(***************************************************************************)
THEOREM ReachesExactly == Spec => []ExactlyReachable
<1>1. IInv => ExactlyReachable
  <2> SUFFICES ASSUME IInv, pc = "done"
               PROVE  Range(rpo) = Reach(succ, present) /\ rpo[1] = Root
    BY InvNoRepeats DEF ExactlyReachable
  <2>1. rpo = Reverse(result) /\ result \in Seq(Block) /\ stack = <<>> /\ Root \in visited
    BY DEF IInv, Phases, TypeOK
  <2>2. /\ Len(rpo) = Len(result) /\ Len(result) \in Nat /\ rpo \in Seq(Block)
        /\ \A i \in 1 .. Len(result) : rpo[i] = result[Len(result) - i + 1]
    BY <2>1, ReverseFacts
  <2>3. \A b \in Block : b \in visited <=> Finished(b)
    BY <2>1 DEF IInv, Partition, OnStack
  <2>4. Range(rpo) = visited
    <3>1. \A i \in 1 .. Len(result) :
            rpo[i] \in Block /\ Finished(rpo[i]) /\ result[i] = rpo[Len(result) - i + 1]
      BY <2>1, <2>2 DEF Finished
    <3>2. Range(rpo) \subseteq visited
      BY <2>2, <2>3, <3>1 DEF Range
    <3>3. \A b \in visited : b \in Range(rpo)
      <4> TAKE b \in visited
      <4>1. PICK i \in 1 .. Len(result) : result[i] = b
        BY <2>3 DEF Finished, IInv, TypeOK
      <4>2. Len(result) - i + 1 \in 1 .. Len(rpo) /\ rpo[Len(result) - i + 1] = b
        BY <4>1, <2>2, <3>1
      <4> QED
        BY <4>2, <2>2 DEF Range
    <3> QED
      BY <3>2, <3>3
  <2>5. visited \subseteq Reach(succ, present)
    <3>1. Root \in Block
      BY SizeAssumption DEF Root, Block
    <3> QED
      BY <3>1, ReachLeast DEF IInv, OnlyReached, Reach
  <2>6. Closed(succ, present, Root, visited)
    <3> SUFFICES ASSUME NEW a \in visited PROVE SuccSet(succ, a) \cap present \subseteq visited
      BY <2>1 DEF Closed
    <3>1. PICK i \in 1 .. Len(result) : result[i] = a
      BY <2>3 DEF Finished, IInv, TypeOK
    <3> QED
      BY <3>1 DEF IInv, Explored
  <2>7. Reach(succ, present) \subseteq visited
    BY <2>6, ReachOn DEF IInv, TypeOK, Reach
  <2>8. rpo[1] = Root
    <3>1. result # <<>> /\ result[Len(result)] = Root
      BY <2>1 DEF IInv, EntryLast
    <3>2. Len(result) \in Nat \ {0}
      BY <2>1, <3>1
    <3> QED
      BY <3>1, <3>2, <2>2
  <2> QED
    BY <2>4, <2>5, <2>7, <2>8
<1> QED
  BY <1>1, Inductive, PTL

-----------------------------------------------------------------------------
(***************************************************************************)
(* The order of the blocks.  Every call on the stack was made on a path    *)
(* from the calls below it, so a block that returns before its successor   *)
(* does is reached by that successor.                                      *)
(***************************************************************************)
OnPath == \A i, j \in 1 .. Len(stack) :
            i <= j => stack[j].block \in ReachFrom(succ, present, stack[i].block)

Earlier(i, c) == \E j \in 1 .. i : result[j] = c

Ordered == \A i \in 1 .. Len(result) : \A c \in SuccSet(succ, result[i]) \cap present :
             Earlier(i, c) \/ result[i] \in ReachFrom(succ, present, c)

OrderInv == IInv /\ Root \in present /\ OnPath /\ Ordered

LEMMA ReachFromSelf ==
  ASSUME NEW a \in Block PROVE a \in ReachFrom(succ, present, a)
BY ReachSelf

LEMMA ReachFromOn ==
  ASSUME NEW a \in Block, NEW b \in ReachFrom(succ, present, a), NEW c \in SuccSet(succ, b) \cap present,
         c \in Block
  PROVE  c \in ReachFrom(succ, present, a)
BY ReachSelf, ReachStep

LEMMA OrderInit == Init => OrderInv
<1> SUFFICES ASSUME Init PROVE OrderInv
  OBVIOUS
<1>1. Root \in Block
  BY SizeAssumption DEF Root, Block
<1>2. Root \in present
  BY <1>1 DEF Init
<1>3. OnPath /\ Ordered
  BY DEF Init, OnPath, Ordered
<1> QED
  BY <1>2, <1>3, InitInv DEF OrderInv

LEMMA StartOrder == OrderInv /\ Start => OnPath' /\ Ordered'
<1> SUFFICES ASSUME OrderInv, Start PROVE OnPath' /\ Ordered'
  OBVIOUS
<1>1. stack' = <<Call(Root)>> /\ result' = <<>> /\ Root \in Block
  BY SizeAssumption DEF Start, OrderInv, IInv, Phases, Root, Block
<1>2. Len(stack') = 1 /\ stack'[1].block = Root
  BY <1>1 DEF Call
<1>3. \A i \in 1 .. 1 : i = 1
  OBVIOUS
<1>4. Root \in ReachFrom(succ, present, Root)'
  BY <1>1, ReachFromSelf DEF Start
<1>5. OnPath'
  BY <1>2, <1>3, <1>4 DEF OnPath
<1> QED
  BY <1>1, <1>5 DEF Ordered

LEMMA SkipOrder == OrderInv /\ Skip => OnPath' /\ Ordered'
<1> SUFFICES ASSUME OrderInv, Skip PROVE OnPath' /\ Ordered'
  OBVIOUS
<1>1. stack # <<>> /\ stack \in Seq(Frame) /\ stack' = Advanced /\ UNCHANGED <<succ, present, result>>
  BY DEF Skip, HasNext, OrderInv, IInv, TypeOK
<1>2. Len(stack') = Len(stack) /\ \A i \in 1 .. Len(stack) : stack'[i].block = stack[i].block
  BY <1>1, AdvancedFacts
<1> QED
  BY <1>1, <1>2 DEF OrderInv, OnPath, Ordered, Earlier

LEMMA EnterOrder == OrderInv /\ Enter => OnPath' /\ Ordered'
<1> SUFFICES ASSUME OrderInv, Enter PROVE OnPath' /\ Ordered'
  OBVIOUS
<1> DEFINE n == Len(stack)
           c == NextSucc
<1>1. /\ stack # <<>> /\ stack \in Seq(Frame) /\ Top.next <= Len(succ[Top.block]) /\ c \in present
      /\ stack' = Append(Advanced, Call(c)) /\ UNCHANGED <<succ, present, result>>
  BY DEF Enter, HasNext, Turned, OrderInv, IInv, TypeOK
<1>2. /\ Advanced \in Seq(Frame) /\ Len(Advanced) = n /\ n \in Nat \ {0}
      /\ \A i \in 1 .. n : Advanced[i].block = stack[i].block
  BY <1>1, AdvancedFacts
<1>3. c \in Block /\ Call(c) \in Frame /\ Call(c).block = c
  BY <1>1 DEF OrderInv, IInv, TypeOK, Call, Frame
<1>4. Top.block \in Block /\ Top.next \in Nat \ {0} /\ Top = stack[n]
  <2>1. stack[n] \in Frame
    BY <1>1, <1>2
  <2> QED
    BY <2>1 DEF Frame, Top
<1>5. c \in SuccSet(succ, stack[n].block) \cap present
  <2>1. Top.next \in DOMAIN succ[Top.block]
    BY <1>1, <1>4, SuccListType DEF OrderInv, IInv
  <2> QED
    BY <1>1, <1>4, <2>1 DEF NextSucc, SuccSet
<1> HIDE DEF n, c
<1>6. /\ Len(stack') = n + 1 /\ stack'[n + 1].block = c
      /\ \A i \in 1 .. n : stack'[i].block = stack[i].block
  BY <1>1, <1>2, <1>3
<1>7. ASSUME NEW i \in 1 .. n + 1, NEW j \in 1 .. n + 1, i <= j
      PROVE  stack'[j].block \in ReachFrom(succ, present, stack'[i].block)
  <2>1. CASE j \in 1 .. n
    <3>1. i \in 1 .. n
      BY <1>7, <2>1, <1>2
    <3>2. stack[j].block \in ReachFrom(succ, present, stack[i].block)
      BY <1>7, <2>1, <3>1 DEF OrderInv, OnPath, n
    <3> QED
      BY <1>6, <2>1, <3>1, <3>2
  <2>2. CASE j = n + 1 /\ i \in 1 .. n
    <3>1. n \in 1 .. n /\ i <= n
      BY <1>2, <2>2
    <3>2. stack[n].block \in ReachFrom(succ, present, stack[i].block)
      BY <2>2, <3>1 DEF OrderInv, OnPath, n
    <3>3. c \in ReachFrom(succ, present, stack[i].block)
      <4>1. stack[i] \in Frame /\ stack[i].block \in Block
        <5>1. stack \in Seq(Frame) /\ i \in 1 .. Len(stack)
          BY <1>1, <2>2 DEF n
        <5>2. stack[i] \in Frame
          BY <5>1
        <5> QED
          BY <5>2 DEF Frame
      <4> QED
        BY <1>3, <1>5, <3>2, <4>1, ReachFromOn
    <3> QED
      BY <1>6, <2>2, <3>3
  <2>3. CASE j = n + 1 /\ i = n + 1
    BY <1>3, <1>6, <2>3, ReachFromSelf
  <2> QED
    BY <1>2, <2>1, <2>2, <2>3
<1>8. OnPath'
  BY <1>1, <1>6, <1>7 DEF OnPath
<1> QED
  BY <1>1, <1>8 DEF OrderInv, Ordered, Earlier

LEMMA ReturnOrder == OrderInv /\ Return => OnPath' /\ Ordered'
<1> SUFFICES ASSUME OrderInv, Return PROVE OnPath' /\ Ordered'
  OBVIOUS
<1> DEFINE n == Len(stack)
           m == Len(result)
           c == Top.block
<1>1. /\ stack # <<>> /\ stack \in Seq(Frame) /\ result \in Seq(Block)
      /\ result' = Append(result, c) /\ stack' = SubSeq(stack, 1, n - 1)
      /\ UNCHANGED <<succ, present, visited>>
  BY DEF Return, Push, OrderInv, IInv, TypeOK
<1>2. n \in Nat \ {0} /\ m \in Nat /\ stack[n] \in Frame /\ Top = stack[n]
  BY <1>1 DEF Top
<1>3. c \in Block /\ stack[n].block = c
  BY <1>2 DEF Frame
<1> HIDE DEF c
<1>4. /\ Len(stack') = n - 1 /\ \A i \in 1 .. n - 1 : stack'[i] = stack[i]
      /\ \A i \in 1 .. n - 1 : i \in 1 .. n
  <2>1. n - 1 \in Nat /\ 1 .. n - 1 \subseteq 1 .. n /\ n = Len(stack)
    BY <1>2
  <2> HIDE DEF n
  <2>2. stack' = [i \in 1 .. n - 1 |-> stack[i]]
    BY <1>1, <2>1
  <2> QED
    BY <2>1, <2>2
<1> HIDE DEF n, m
<1>5. Len(result') = m + 1 /\ result'[m + 1] = c /\ \A i \in 1 .. m : result'[i] = result[i]
  BY <1>1, <1>2, <1>3 DEF m
<1>6. OnPath'
  BY <1>1, <1>4 DEF OrderInv, OnPath, n
<1>7. ASSUME NEW i \in 1 .. m, NEW d \in SuccSet(succ, result[i]) \cap present
      PROVE  (\E j \in 1 .. i : result'[j] = d) \/ result[i] \in ReachFrom(succ, present, d)
  <2>1. \A j \in 1 .. i : j \in 1 .. m
    BY <1>2
  <2> QED
    BY <1>5, <1>7, <2>1 DEF OrderInv, Ordered, Earlier, m
<1>8. ASSUME NEW d \in SuccSet(succ, c) \cap present
      PROVE  (\E j \in 1 .. m + 1 : result'[j] = d) \/ c \in ReachFrom(succ, present, d)
  <2>1. d \in Block /\ d \in visited
    <3>1. SuccSet(succ, c) \cap present \subseteq visited
      <4>1. IInv'
        BY ReturnInv DEF OrderInv
      <4>2. m + 1 \in 1 .. Len(result')
        BY <1>2, <1>5
      <4>3. SuccSet(succ', result'[m + 1]) \cap present' \subseteq visited'
        BY <4>1, <4>2 DEF IInv, Explored
      <4> QED
        BY <1>1, <1>5, <4>3
    <3> QED
      BY <3>1 DEF OrderInv, IInv, TypeOK
  <2>2. CASE Finished(d)
    <3>1. PICK j \in 1 .. m : result[j] = d
      BY <2>2 DEF Finished, m
    <3>2. j \in 1 .. m + 1 /\ result'[j] = d
      BY <1>2, <1>5, <3>1
    <3> QED
      BY <3>2
  <2>3. CASE OnStack(d)
    <3>1. PICK i \in 1 .. n : stack[i].block = d
      BY <2>3 DEF OnStack, n
    <3>2. i <= n /\ n \in 1 .. n
      BY <1>2
    <3> QED
      BY <1>3, <3>1, <3>2 DEF OrderInv, OnPath, n
  <2> QED
    BY <2>1, <2>2, <2>3 DEF OrderInv, IInv, Partition
<1>9. Ordered'
  <2> SUFFICES ASSUME NEW i \in 1 .. m + 1, NEW d \in SuccSet(succ, result'[i]) \cap present
               PROVE  (\E j \in 1 .. i : result'[j] = d) \/ result'[i] \in ReachFrom(succ, present, d)
    BY <1>1, <1>5 DEF Ordered, Earlier
  <2>1. CASE i \in 1 .. m
    BY <1>5, <1>7, <2>1
  <2>2. CASE i = m + 1
    BY <1>5, <1>8, <2>2
  <2> QED
    BY <1>2, <2>1, <2>2
<1> QED
  BY <1>6, <1>9

LEMMA OrderNext == OrderInv /\ [Next]_vars => OrderInv'
<1> SUFFICES ASSUME OrderInv, [Next]_vars PROVE OrderInv'
  OBVIOUS
<1>1. IInv' /\ present' = present
  BY NextInv DEF OrderInv, Next, Step, Start, Skip, Enter, Return, Finish, Terminated, vars
<1>2. CASE Start \/ Skip \/ Enter \/ Return
  BY <1>1, <1>2, StartOrder, SkipOrder, EnterOrder, ReturnOrder DEF OrderInv
<1>3. CASE UNCHANGED <<succ, present, stack, result>>
  BY <1>1, <1>3 DEF OrderInv, OnPath, Ordered, Earlier
<1> QED
  BY <1>2, <1>3 DEF Next, Step, Finish, Terminated, vars

LEMMA OrderInductive == Spec => []OrderInv
<1> QED
  BY OrderInit, OrderNext, PTL DEF Spec

(***************************************************************************)
(* An edge that leads backwards in the order closes a cycle: on a graph    *)
(* without cycles the order is topological, and elsewhere only the edges   *)
(* of loops go against it.                                                 *)
(***************************************************************************)
THEOREM BackwardClosesCycle == Spec => []BackwardOnlyInCycles
<1>1. OrderInv => BackwardOnlyInCycles
  <2> SUFFICES ASSUME OrderInv, pc = "done", NEW i \in 1 .. Len(rpo), NEW j \in 1 .. Len(rpo), j < i,
                      rpo[j] \in SuccSet(succ, rpo[i])
               PROVE  rpo[i] \in ReachFrom(succ, present, rpo[j])
    BY DEF BackwardOnlyInCycles
  <2> DEFINE p == Len(result) - i + 1
             q == Len(result) - j + 1
  <2>1. rpo = Reverse(result) /\ result \in Seq(Block)
    BY DEF OrderInv, IInv, Phases, TypeOK
  <2>2. Len(rpo) = Len(result) /\ Len(result) \in Nat /\ rpo[i] = result[p] /\ rpo[j] = result[q]
    BY <2>1, ReverseFacts
  <2>3. p \in 1 .. Len(result) /\ q \in 1 .. Len(result) /\ p < q
    BY <2>2
  <2> HIDE DEF p, q
  <2>4. result[q] \in present
    <3>1. Closed(succ, present, Root, present)
      BY DEF OrderInv, Closed
    <3>2. visited \subseteq present
      BY <3>1 DEF OrderInv, IInv, OnlyReached, TypeOK
    <3>3. result[q] \in Block /\ Finished(result[q])
      BY <2>1, <2>3 DEF Finished
    <3> QED
      BY <3>2, <3>3 DEF OrderInv, IInv, Partition
  <2>5. ~Earlier(p, result[q])
    <3> SUFFICES ASSUME NEW k \in 1 .. p, result[k] = result[q] PROVE FALSE
      BY DEF Earlier
    <3>1. k \in 1 .. Len(result) /\ k # q
      BY <2>2, <2>3
    <3> QED
      BY <2>3, <3>1 DEF OrderInv, IInv, Partition
  <2> QED
    BY <2>2, <2>3, <2>4, <2>5 DEF OrderInv, Ordered
<1> QED
  BY <1>1, OrderInductive, PTL

(***************************************************************************)
(* The order of the pass is that of Orders: on a complete graph the stack  *)
(* holds the calls of PostOrderVisitor that are under way.  The call of    *)
(* frame n is one that others may nest in N + 1 - n deep, so those that it *)
(* makes are of level N - n.                                               *)
(***************************************************************************)
\* The successors that a call has still to visit.
Rest(g, f) == SubSeq(g[f.block], f.next, Len(g[f.block]))

\* The call after one more successor.
Later(f) == [f EXCEPT !.next = @ + 1]

\* What the rest of call f, number n on the stack, makes of the state s.
Completed(g, visit, n, f, s) == [EachOf(visit[N - n], Rest(g, f), s) EXCEPT !.out = Append(@, f.block)]

Blank     == [seen |-> {}, out |-> <<>>]
Mark(s, b) == [s EXCEPT !.seen = @ \cup {b}]

\* w[n] is the state when only the first n calls are left; now it is s, and at
\* the end it is what the call for the entry makes of the blank state.
Resumes(g, visit, st, s, w) ==
  /\ w[Len(st)] = s /\ w[0] = visit[N][Blank][Root]
  /\ \A i \in 0 .. Len(st) : w[i] \in VisitState
  /\ \A i \in 1 .. Len(st) : w[i - 1] = Completed(g, visit, i, st[i], w[i])

LEMMA RestFacts ==
  ASSUME NEW g \in Cfgs, NEW f \in Frame
  PROVE  /\ ListOver(Block, Rest(g, f)) /\ g[f.block] \in Seq(Block) /\ f.block \in Block /\ f.next \in Nat
         /\ f.next > Len(g[f.block]) => Rest(g, f) = <<>>
         /\ f.next <= Len(g[f.block]) =>
              /\ Rest(g, f) # <<>> /\ Head(Rest(g, f)) = g[f.block][f.next] /\ g[f.block][f.next] \in Block
              /\ Tail(Rest(g, f)) = Rest(g, Later(f))
<1>1. f.block \in Block /\ f.next \in Nat \ {0}
  BY DEF Frame
<1>2. PICK q \in Seq(Block) : q = g[f.block]
  BY <1>1, SuccSeq
<1>3. PICK m \in Nat \ {0} : m = f.next
  BY <1>1
<1>4. PICK n \in Nat : n = Len(q)
  OBVIOUS
<1>5. Rest(g, f) = SubSeq(q, m, n) /\ Rest(g, Later(f)) = SubSeq(q, m + 1, n)
  BY <1>2, <1>3, <1>4 DEF Rest, Frame, Later
<1>6. SubSeq(q, m, n) \in Seq(Block)
  <2>1. m \in Int /\ n \in Int /\ \A i \in m .. n : q[i] \in Block
    BY <1>2, <1>4
  <2> QED
    BY <2>1, SubSeqProperties
<1>7. ASSUME m > n PROVE SubSeq(q, m, n) = <<>>
  BY <1>7, SubSeqEmpty
<1>8. ASSUME m <= n
      PROVE  /\ SubSeq(q, m, n) # <<>> /\ Head(SubSeq(q, m, n)) = q[m] /\ q[m] \in Block
             /\ Tail(SubSeq(q, m, n)) = SubSeq(q, m + 1, n)
  <2>1. m \in 1 .. Len(q) /\ n \in m .. Len(q)
    BY <1>4, <1>8
  <2>2. Head(SubSeq(q, m, n)) = q[m] /\ Tail(SubSeq(q, m, n)) = SubSeq(q, m + 1, n)
    BY <2>1, HeadTailOfSubSeq
  <2>3. Len(SubSeq(q, m, n)) = n - m + 1
    <3>1. m \in Int /\ n \in Int /\ \A i \in m .. n : q[i] \in Block
      BY <1>2, <1>4
    <3> QED
      BY <1>8, <3>1, SubSeqProperties
  <2> QED
    BY <1>2, <1>8, <2>1, <2>2, <2>3
<1>9. PICK r, t : r = Rest(g, f) /\ t = Rest(g, Later(f))
  OBVIOUS
<1>10. r \in Seq(Block) /\ (m > n => r = <<>>)
       /\ (m <= n => r # <<>> /\ Head(r) = q[m] /\ q[m] \in Block /\ Tail(r) = t)
  BY <1>5, <1>6, <1>7, <1>8, <1>9
<1> QED
  BY <1>1, <1>2, <1>3, <1>4, <1>9, <1>10 DEF ListOver

\* A call begins with all successors before it.
LEMMA RestOfCall ==
  ASSUME NEW g \in Cfgs, NEW b \in Block
  PROVE  Rest(g, Call(b)) = g[b] /\ Call(b).block = b /\ Call(b) \in Frame
<1>1. g[b] \in Seq(Block)
  BY SuccSeq
<1>2. SubSeq(g[b], 1, Len(g[b])) = g[b]
  BY <1>1, SubSeqFull
<1> QED
  BY <1>2 DEF Rest, Call, Frame

\* The calls of one level are visits.
LEMMA LevelVisitor ==
  ASSUME NEW g, NEW visit, VisitLevels(g, visit), NEW n \in 0 .. N
  PROVE  Visitor(visit[n], VisitState, Block)
BY DEF VisitLevels, VisitCalls, Visitor

\* One more successor has been visited.
LEMMA CompletedNext ==
  ASSUME NEW g \in Cfgs, NEW visit, VisitLevels(g, visit), NEW n \in 1 .. N, NEW f \in Frame, NEW s \in VisitState,
         f.next <= Len(g[f.block]), NEW c, c = g[f.block][f.next], NEW t, t = visit[N - n][s][c]
  PROVE  t \in VisitState /\ Completed(g, visit, n, f, s) = Completed(g, visit, n, Later(f), t)
<1>1. c \in Block
  BY RestFacts
<1>2. PICK v : v = visit[N - n]
  OBVIOUS
<1>3. Visitor(v, VisitState, Block)
  <2>1. N - n \in 0 .. N
    BY SizeAssumption
  <2> QED
    BY <1>2, <2>1, LevelVisitor
<1>4. t = v[s][c]
  BY <1>2
<1>5. t \in VisitState
  BY <1>1, <1>3, <1>4 DEF Visitor
<1>6. PICK h : h = Later(f)
  OBVIOUS
<1>7. PICK q : q = Rest(g, f)
  OBVIOUS
<1>8. q \in Seq(Block) /\ q # <<>> /\ Head(q) = c /\ Tail(q) = Rest(g, h)
  BY <1>1, <1>6, <1>7, RestFacts DEF ListOver
<1>9. EachOf(v, q, s) = EachOf(v, Tail(q), v[s][Head(q)])
  BY <1>3, <1>8, EachOfNext
<1>10. EachOf(v, Rest(g, f), s) = EachOf(v, Rest(g, h), t)
  BY <1>4, <1>7, <1>8, <1>9
<1>11. h.block = f.block
  BY <1>6 DEF Frame, Later
<1>12. Completed(g, visit, n, f, s) = Completed(g, visit, n, h, t)
  BY <1>2, <1>10, <1>11 DEF Completed
<1> QED
  BY <1>5, <1>6, <1>12

\* A call that has visited all its successors only pushes its block.
LEMMA CompletedLast ==
  ASSUME NEW g \in Cfgs, NEW visit, VisitLevels(g, visit), NEW n \in 1 .. N, NEW f \in Frame, NEW s \in VisitState,
         f.next > Len(g[f.block])
  PROVE  Completed(g, visit, n, f, s) = [s EXCEPT !.out = Append(@, f.block)]
<1>1. PICK v : v = visit[N - n]
  OBVIOUS
<1>2. Visitor(v, VisitState, Block)
  <2>1. N - n \in 0 .. N
    BY SizeAssumption
  <2> QED
    BY <1>1, <2>1, LevelVisitor
<1>3. EachOf(v, <<>>, s) = s
  BY <1>2, EachOfNone
<1>4. Rest(g, f) = <<>>
  BY RestFacts
<1> QED
  BY <1>1, <1>3, <1>4 DEF Completed

\* A call that marks its block is a new frame.
LEMMA CompletedCall ==
  ASSUME NEW g \in Cfgs, NEW visit, VisitLevels(g, visit), NEW n \in 1 .. N, NEW s \in VisitState, NEW b \in Block,
         b \notin s.seen, NEW m, m = Mark(s, b)
  PROVE  m \in VisitState /\ visit[N - n + 1][s][b] = Completed(g, visit, n, Call(b), m)
<1>1. N - n + 1 \in 1 .. N /\ (N - n + 1) - 1 = N - n
  BY SizeAssumption
<1>2. visit[N - n + 1][s][b] = VisitBlock(g, visit[N - n], s, b)
  BY <1>1 DEF VisitLevels
<1>3. Mark(s, b) \in VisitState
  BY DEF Mark, VisitState
<1>4. Rest(g, Call(b)) = g[b] /\ Call(b).block = b
  BY RestOfCall
<1>5. VisitBlock(g, visit[N - n], s, b) = Completed(g, visit, n, Call(b), Mark(s, b))
  BY <1>4 DEF VisitBlock, Completed, Mark
<1> QED
  BY <1>2, <1>3, <1>5

\* Before the call for the entry.
LEMMA ResumesStart ==
  ASSUME NEW g \in Cfgs, NEW visit, VisitLevels(g, visit)
  PROVE  \E w : Resumes(g, visit, <<Call(Root)>>, Mark(Blank, Root), w)
<1>1. Blank \in VisitState /\ Root \in Block /\ Root \notin Blank.seen /\ 1 \in 1 .. N /\ N - 1 + 1 = N
  BY SizeAssumption DEF Blank, VisitState, Root, Block
<1>2. PICK s : s = Mark(Blank, Root)
  OBVIOUS
<1>3. s \in VisitState /\ visit[N][Blank][Root] = Completed(g, visit, 1, Call(Root), s)
  BY <1>1, <1>2, CompletedCall
<1>4. PICK t : t = visit[N][Blank][Root]
  OBVIOUS
<1>5. t \in VisitState
  <2>1. Visitor(visit[N], VisitState, Block)
    BY SizeAssumption, LevelVisitor
  <2> QED
    BY <1>1, <1>4, <2>1 DEF Visitor
<1>6. PICK st : st = <<Call(Root)>>
  OBVIOUS
<1>7. Len(st) = 1 /\ st[1] = Call(Root)
  BY <1>6
<1>8. PICK w : w = [i \in 0 .. 1 |-> IF i = 1 THEN s ELSE t]
  OBVIOUS
<1>9. w[1] = s /\ w[0] = t /\ \A i \in 0 .. 1 : w[i] \in VisitState
  BY <1>3, <1>5, <1>8
<1>10. ASSUME NEW i \in 1 .. 1 PROVE w[i - 1] = Completed(g, visit, i, st[i], w[i])
  <2>1. i = 1 /\ i - 1 = 0
    OBVIOUS
  <2> QED
    BY <1>3, <1>4, <1>7, <1>9, <2>1
<1>11. Resumes(g, visit, st, s, w)
  BY <1>4, <1>7, <1>9, <1>10 DEF Resumes
<1> QED
  BY <1>2, <1>6, <1>11

\* The stack st with top f, and st2 with a later top and perhaps a new call.
Moved(st, n, f, st2) ==
  /\ n \in 1 .. N /\ Len(st) = n /\ st[n] = f /\ st2[n] = Later(f)
  /\ \A i \in 1 .. n - 1 : st2[i] = st[i]

\* A call that returns at once.
LEMMA ResumesSkip ==
  ASSUME NEW g \in Cfgs, NEW visit, VisitLevels(g, visit), NEW n, NEW st, NEW st2, NEW f \in Frame, Moved(st, n, f, st2),
         Len(st2) = n, NEW s, NEW w, Resumes(g, visit, st, s, w),
         f.next <= Len(g[f.block]), g[f.block][f.next] \in s.seen
  PROVE  Resumes(g, visit, st2, s, w)
<1>1. n \in 1 .. N /\ Len(st) = n /\ st[n] = f /\ st2[n] = Later(f) /\ \A i \in 1 .. n - 1 : st2[i] = st[i]
  BY DEF Moved
<1>2. /\ w[n] = s /\ w[0] = visit[N][Blank][Root] /\ \A i \in 0 .. n : w[i] \in VisitState
      /\ \A i \in 1 .. n : w[i - 1] = Completed(g, visit, i, st[i], w[i])
  BY <1>1 DEF Resumes
<1>3. s \in VisitState
  BY <1>1, <1>2
<1>4. PICK c : c = g[f.block][f.next]
  OBVIOUS
<1>5. c \in Block /\ c \in s.seen
  BY <1>4, RestFacts
<1>6. visit[N - n][s][c] = s
  <2>1. CASE N - n = 0
    BY <1>3, <1>5, <2>1 DEF VisitLevels
  <2>2. CASE N - n # 0
    <3>1. N - n \in 1 .. N
      BY <1>1, <2>2, SizeAssumption
    <3>2. visit[N - n][s][c] = VisitBlock(g, visit[N - n - 1], s, c)
      BY <1>3, <1>5, <3>1 DEF VisitLevels
    <3> QED
      BY <1>5, <3>2 DEF VisitBlock
  <2> QED
    BY <2>1, <2>2
<1>7. Completed(g, visit, n, f, s) = Completed(g, visit, n, Later(f), s)
  <2>1. n \in 1 .. N /\ s = visit[N - n][s][c]
    BY <1>1, <1>6
  <2> QED
    BY <1>3, <1>4, <2>1, CompletedNext
<1>8. ASSUME NEW i \in 1 .. n PROVE w[i - 1] = Completed(g, visit, i, st2[i], w[i])
  <2>1. CASE i = n
    BY <1>1, <1>2, <1>7, <2>1
  <2>2. CASE i # n
    <3>1. i \in 1 .. n - 1
      BY <1>1, <2>2
    <3> QED
      BY <1>1, <1>2, <3>1
  <2> QED
    BY <2>1, <2>2
<1> QED
  BY <1>2, <1>8 DEF Resumes

\* The next successor c of call f is not marked: its call is frame n + 1.
LEMMA CompletedEnter ==
  ASSUME NEW g \in Cfgs, NEW visit, VisitLevels(g, visit), NEW n \in 1 .. N, NEW k \in 1 .. N, k = n + 1,
         NEW f \in Frame, NEW s \in VisitState, f.next <= Len(g[f.block]),
         NEW c, c = g[f.block][f.next], c \notin s.seen, NEW m, m = Mark(s, c)
  PROVE  \E t \in VisitState : /\ m \in VisitState /\ t = Completed(g, visit, k, Call(c), m)
                               /\ Completed(g, visit, n, f, s) = Completed(g, visit, n, Later(f), t)
<1>1. PICK t : t = visit[N - n][s][c]
  OBVIOUS
<1>2. t \in VisitState /\ Completed(g, visit, n, f, s) = Completed(g, visit, n, Later(f), t)
  BY <1>1, CompletedNext
<1>3. N - k + 1 = N - n
  BY SizeAssumption
<1>4. c \in Block
  BY RestFacts
<1>5. m \in VisitState /\ visit[N - k + 1][s][c] = Completed(g, visit, k, Call(c), m)
  BY <1>4, CompletedCall
<1> QED
  BY <1>1, <1>2, <1>3, <1>5

\* A call that marks its block.
LEMMA ResumesEnter ==
  ASSUME NEW g \in Cfgs, NEW visit, VisitLevels(g, visit), NEW n, NEW st, NEW st2, NEW f \in Frame, Moved(st, n, f, st2),
         n + 1 <= N, NEW s, NEW w, Resumes(g, visit, st, s, w),
         NEW c, c = g[f.block][f.next], f.next <= Len(g[f.block]), c \notin s.seen,
         Len(st2) = n + 1, st2[n + 1] = Call(c)
  PROVE  \E x : Resumes(g, visit, st2, Mark(s, c), x)
<1>1. n \in 1 .. N /\ Len(st) = n /\ st[n] = f /\ st2[n] = Later(f) /\ \A i \in 1 .. n - 1 : st2[i] = st[i]
  BY DEF Moved
<1>2. /\ w[n] = s /\ w[0] = visit[N][Blank][Root] /\ \A i \in 0 .. n : w[i] \in VisitState
      /\ \A i \in 1 .. n : w[i - 1] = Completed(g, visit, i, st[i], w[i])
  BY <1>1 DEF Resumes
<1>3. s \in VisitState /\ c \in Block
  BY <1>1, <1>2, RestFacts
<1>4. PICK k \in 1 .. N : k = n + 1
  BY <1>1, SizeAssumption
<1>5. PICK m : m = Mark(s, c)
  OBVIOUS
<1>6. PICK t \in VisitState : /\ m \in VisitState /\ t = Completed(g, visit, k, Call(c), m)
                              /\ Completed(g, visit, n, f, s) = Completed(g, visit, n, Later(f), t)
  <2>1. PICK j \in 1 .. N : j = n
    BY <1>1
  <2>2. \E t \in VisitState : /\ m \in VisitState /\ t = Completed(g, visit, k, Call(c), m)
                              /\ Completed(g, visit, j, f, s) = Completed(g, visit, j, Later(f), t)
    BY <1>3, <1>4, <1>5, <2>1, CompletedEnter
  <2> QED
    BY <2>1, <2>2
<1>7. m \in VisitState /\ t = Completed(g, visit, n + 1, Call(c), m)
  BY <1>4, <1>6
<1>8. t \in VisitState /\ Completed(g, visit, n, f, s) = Completed(g, visit, n, Later(f), t)
  BY <1>6
<1>9. PICK x : x = [i \in 0 .. n + 1 |-> IF i = n + 1 THEN m ELSE IF i = n THEN t ELSE w[i]]
  OBVIOUS
<1>10. x[n + 1] = m /\ x[n] = t /\ \A i \in 0 .. n - 1 : x[i] = w[i]
  <2>1. n + 1 \in 0 .. n + 1 /\ n \in 0 .. n + 1 /\ n # n + 1
    BY <1>1
  <2>2. \A i \in 0 .. n - 1 : i \in 0 .. n + 1 /\ i # n + 1 /\ i # n
    BY <1>1
  <2> QED
    BY <1>9, <2>1, <2>2
<1>11. ASSUME NEW i \in 0 .. n + 1 PROVE x[i] \in VisitState
  <2>1. i = n + 1 \/ i = n \/ (i \in 0 .. n - 1 /\ i \in 0 .. n)
    BY <1>1
  <2> QED
    BY <1>2, <1>7, <1>8, <1>10, <2>1
<1>12. ASSUME NEW i \in 1 .. n + 1 PROVE x[i - 1] = Completed(g, visit, i, st2[i], x[i])
  <2>1. CASE i = n + 1
    <3>1. i - 1 = n
      BY <1>1, <2>1
    <3> QED
      BY <1>7, <1>10, <2>1, <3>1
  <2>2. CASE i = n
    <3>1. n - 1 \in 0 .. n - 1 /\ n \in 1 .. n
      BY <1>1
    <3>2. x[n - 1] = Completed(g, visit, n, f, s)
      BY <1>1, <1>2, <1>10, <3>1
    <3> QED
      BY <1>1, <1>8, <1>10, <2>2, <3>2
  <2>3. CASE i # n + 1 /\ i # n
    <3>1. i \in 1 .. n - 1 /\ i \in 0 .. n - 1 /\ i - 1 \in 0 .. n - 1 /\ i \in 1 .. n
      BY <1>1, <2>3
    <3> QED
      BY <1>1, <1>2, <1>10, <3>1
  <2> QED
    BY <2>1, <2>2, <2>3
<1>13. x[0] = visit[N][Blank][Root]
  <2>1. 0 \in 0 .. n - 1
    BY <1>1
  <2> QED
    BY <1>2, <1>10, <2>1
<1>14. Resumes(g, visit, st2, m, x)
  BY <1>10, <1>11, <1>12, <1>13 DEF Resumes
<1> QED
  BY <1>5, <1>14

\* A call that pushes its block and returns.
LEMMA ResumesReturn ==
  ASSUME NEW g \in Cfgs, NEW visit, VisitLevels(g, visit), NEW n \in 1 .. N, NEW st, NEW st2, Len(st) = n,
         Len(st2) = n - 1, \A i \in 1 .. n - 1 : st2[i] = st[i],
         NEW f \in Frame, f = st[n], f.next > Len(g[f.block]), NEW s, NEW w, Resumes(g, visit, st, s, w)
  PROVE  Resumes(g, visit, st2, [s EXCEPT !.out = Append(@, f.block)], w)
<1>1. /\ w[n] = s /\ w[0] = visit[N][Blank][Root] /\ \A i \in 0 .. n : w[i] \in VisitState
      /\ \A i \in 1 .. n : w[i - 1] = Completed(g, visit, i, st[i], w[i])
  BY DEF Resumes
<1>2. s \in VisitState /\ n \in 1 .. n
  BY <1>1
<1>3. w[n - 1] = Completed(g, visit, n, f, s)
  BY <1>1, <1>2
<1>4. PICK t : t = [s EXCEPT !.out = Append(@, f.block)]
  OBVIOUS
<1>5. w[n - 1] = t
  BY <1>2, <1>3, <1>4, CompletedLast
<1>6. \A i \in 0 .. n - 1 : i \in 0 .. n
  OBVIOUS
<1>7. \A i \in 1 .. n - 1 : i \in 1 .. n /\ st2[i] = st[i]
  OBVIOUS
<1>8. Resumes(g, visit, st2, t, w)
  BY <1>1, <1>5, <1>6, <1>7 DEF Resumes
<1> QED
  BY <1>4, <1>8

\* What the calls under way will list is the order of Orders.
Reference ==
  /\ pc = "visit" =>
       \E visit, w : /\ VisitLevels(succ, visit) /\ PostOrderVisitor(succ) = visit[N]
                     /\ Resumes(succ, visit, stack, [seen |-> visited, out |-> result], w)
  /\ pc = "done" => result = PostOrder(succ)

MatchInv == IInv /\ (present = Block => Reference)

\* No more calls are under way than there are blocks.
LEMMA DepthBound ==
  ASSUME NEW st \in Seq(Frame), \A i, j \in 1 .. Len(st) : st[i].block = st[j].block => i = j
  PROVE  Len(st) \in 0 .. N
<1>1. N \in Nat /\ Block = 1 .. N
  BY SizeAssumption DEF Block
<1>2. PICK n \in Nat : n = Len(st)
  OBVIOUS
<1>3. \A i \in 1 .. n : st[i].block \in Block
  <2>1. \A i \in 1 .. n : st[i] \in Frame
    BY <1>2
  <2> QED
    BY <2>1 DEF Frame
<1> DEFINE f == [i \in 1 .. n |-> st[i].block]
<1>4. f \in Injection(1 .. n, 1 .. N)
  BY <1>1, <1>2, <1>3 DEF Injection, IsInjective
<1>5. Cardinality(1 .. n) <= Cardinality(1 .. N)
  <2>1. IsFiniteSet(1 .. N)
    BY <1>1, FS_Interval
  <2> HIDE DEF f
  <2> QED
    BY <1>4, <2>1, FS_Injection
<1>6. \A a \in Nat : Cardinality(1 .. a) = a
  <2> TAKE a \in Nat
  <2>1. Cardinality(1 .. a) = IF 1 > a THEN 0 ELSE a - 1 + 1
    BY FS_Interval
  <2> QED
    BY <2>1
<1> QED
  BY <1>1, <1>2, <1>5, <1>6

LEMMA StartMatches == ASSUME MatchInv, Start, present = Block PROVE Reference'
<1>1. succ \in Cfgs /\ result = <<>> /\ pc = "start" /\ visited' = {Root} /\ stack' = <<Call(Root)>>
      /\ succ' = succ /\ result' = result /\ pc' = "visit"
  BY DEF MatchInv, IInv, TypeOK, Phases, Start
<1>2. PICK visit : VisitLevels(succ, visit) /\ PostOrderVisitor(succ) = visit[N]
  BY <1>1, PostOrderLevels
<1>3. PICK w : Resumes(succ, visit, <<Call(Root)>>, Mark(Blank, Root), w)
  BY <1>1, <1>2, ResumesStart
<1>4. Mark(Blank, Root) = [seen |-> {Root}, out |-> <<>>]
  <2>1. PICK e : e = {} \cup {Root}
    OBVIOUS
  <2>2. Mark(Blank, Root) = [Blank EXCEPT !.seen = e] /\ e = {Root}
    BY <2>1 DEF Mark, Blank
  <2> QED
    BY <2>2 DEF Blank
<1> QED
  BY <1>1, <1>2, <1>3, <1>4 DEF Reference

\* The frame on top, while a call is under way.
LEMMA TopFacts ==
  ASSUME IInv, stack # <<>>
  PROVE  /\ Len(stack) \in 1 .. N /\ Top \in Frame /\ Top = stack[Len(stack)]
         /\ Len(Advanced) = Len(stack) /\ Moved(stack, Len(stack), Top, Advanced)
         /\ Advanced \in Seq(Frame)
<1>1. stack \in Seq(Frame)
  BY DEF IInv, TypeOK
<1>2. /\ Advanced \in Seq(Frame) /\ Len(Advanced) = Len(stack) /\ Len(stack) \in Nat \ {0}
      /\ \A i \in 1 .. Len(stack) : i # Len(stack) => Advanced[i] = stack[i]
  BY <1>1, AdvancedFacts
<1>3. Len(stack) \in 1 .. N
  <2>1. Len(stack) \in 0 .. N
    BY <1>1, DepthBound DEF IInv, Partition
  <2> QED
    BY <1>2, <2>1
<1>4. Top \in Frame /\ Top = stack[Len(stack)]
  BY <1>1, <1>2 DEF Top
<1>5. Advanced[Len(stack)] = Later(stack[Len(stack)])
  <2>1. Advanced = [stack EXCEPT ![Len(stack)] = Later(Top)]
    BY DEF Advanced, Later
  <2>2. Len(stack) \in DOMAIN stack
    BY <1>1, <1>2
  <2> QED
    BY <1>4, <2>1, <2>2
<1>6. \A i \in 1 .. Len(stack) - 1 : i \in 1 .. Len(stack) /\ i # Len(stack)
  BY <1>2
<1>7. Moved(stack, Len(stack), Top, Advanced)
  BY <1>2, <1>3, <1>4, <1>5, <1>6 DEF Moved
<1> QED
  BY <1>2, <1>3, <1>4, <1>7

LEMMA SkipMatches == ASSUME MatchInv, Skip, present = Block PROVE Reference'
<1>1. /\ pc = "visit" /\ stack # <<>> /\ Top.next <= Len(succ[Top.block]) /\ stack' = Advanced
      /\ UNCHANGED <<succ, visited, result, pc>> /\ NextSucc = succ[Top.block][Top.next]
      /\ (NextSucc \in visited \/ NextSucc \notin present)
  BY DEF Skip, HasNext, Turned, NextSucc
<1>2. PICK s : s = [seen |-> visited, out |-> result]
  OBVIOUS
<1>3. PICK visit, w : /\ VisitLevels(succ, visit) /\ PostOrderVisitor(succ) = visit[N]
                      /\ Resumes(succ, visit, stack, s, w)
  BY <1>1, <1>2 DEF MatchInv, Reference
<1>4. PICK g \in Cfgs : g = succ
  BY DEF MatchInv, IInv, TypeOK
<1>5. PICK n : n = Len(stack)
  OBVIOUS
<1>6. PICK f \in Frame : f = Top /\ f = stack[n]
  BY <1>1, <1>5, TopFacts DEF MatchInv
<1>7. PICK st : st = Advanced
  OBVIOUS
<1>8. Moved(stack, n, f, st) /\ Len(st) = n
  BY <1>1, <1>5, <1>6, <1>7, TopFacts DEF MatchInv
<1>9. f.next <= Len(g[f.block]) /\ g[f.block][f.next] \in s.seen
  <2>1. g[f.block][f.next] \in Block
    BY <1>1, <1>4, <1>6, RestFacts
  <2> QED
    BY <1>1, <1>2, <1>4, <1>6, <2>1
<1>10. Resumes(g, visit, st, s, w)
  BY <1>3, <1>4, <1>6, <1>8, <1>9, ResumesSkip
<1> QED
  BY <1>1, <1>2, <1>3, <1>4, <1>7, <1>10 DEF Reference

LEMMA EnterMatches == ASSUME MatchInv, IInv', Enter, present = Block PROVE Reference'
<1>1. /\ pc = "visit" /\ stack # <<>> /\ Top.next <= Len(succ[Top.block])
      /\ stack' = Append(Advanced, Call(NextSucc)) /\ visited' = visited \cup {NextSucc}
      /\ UNCHANGED <<succ, result, pc>> /\ NextSucc = succ[Top.block][Top.next] /\ NextSucc \notin visited
  BY DEF Enter, HasNext, Turned, NextSucc
<1>2. PICK s : s = [seen |-> visited, out |-> result]
  OBVIOUS
<1>3. PICK visit, w : /\ VisitLevels(succ, visit) /\ PostOrderVisitor(succ) = visit[N]
                      /\ Resumes(succ, visit, stack, s, w)
  BY <1>1, <1>2 DEF MatchInv, Reference
<1>4. PICK g \in Cfgs : g = succ
  BY DEF MatchInv, IInv, TypeOK
<1>5. PICK n : n = Len(stack)
  OBVIOUS
<1>6. PICK f \in Frame : f = Top /\ f = stack[n]
  BY <1>1, <1>5, TopFacts DEF MatchInv
<1>7. PICK c : c = NextSucc
  OBVIOUS
<1>8. c = g[f.block][f.next] /\ f.next <= Len(g[f.block]) /\ c \notin s.seen /\ c \in Block
  <2>1. c = g[f.block][f.next] /\ f.next <= Len(g[f.block]) /\ c \notin s.seen
    BY <1>1, <1>2, <1>4, <1>6, <1>7
  <2> QED
    BY <2>1, RestFacts
<1>9. PICK st : st = stack'
  OBVIOUS
<1>10. Moved(stack, n, f, st) /\ Len(st) = n + 1 /\ st[n + 1] = Call(c)
  <2>1. /\ n \in 1 .. N /\ Len(Advanced) = n /\ Moved(stack, n, f, Advanced) /\ Advanced \in Seq(Frame)
    BY <1>1, <1>5, <1>6, TopFacts DEF MatchInv
  <2>2. st = Append(Advanced, Call(c)) /\ Call(c) \in Frame
    BY <1>1, <1>7, <1>8, <1>9 DEF Call, Frame
  <2>3. Len(st) = n + 1 /\ st[n + 1] = Call(c) /\ \A i \in 1 .. n : st[i] = Advanced[i]
    BY <2>1, <2>2
  <2> QED
    BY <2>1, <2>3 DEF Moved
<1>11. n + 1 <= N
  <2>1. st \in Seq(Frame) /\ \A i, j \in 1 .. Len(st) : st[i].block = st[j].block => i = j
    BY <1>9 DEF IInv, TypeOK, Partition
  <2>2. Len(st) \in 0 .. N
    BY <2>1, DepthBound
  <2> QED
    BY <1>10, <2>2
<1>12. PICK x : Resumes(g, visit, st, Mark(s, c), x)
  BY <1>3, <1>4, <1>6, <1>8, <1>10, <1>11, ResumesEnter
<1>13. Mark(s, c) = [seen |-> visited', out |-> result']
  <2>1. PICK e : e = s.seen \cup {c}
    OBVIOUS
  <2>2. Mark(s, c) = [s EXCEPT !.seen = e] /\ e = visited'
    BY <1>1, <1>2, <1>7, <2>1 DEF Mark
  <2> QED
    BY <1>1, <1>2, <2>2
<1> QED
  BY <1>1, <1>3, <1>4, <1>9, <1>12, <1>13 DEF Reference

LEMMA ReturnMatches == ASSUME MatchInv, Return, present = Block PROVE Reference'
<1>1. /\ pc = "visit" /\ stack # <<>> /\ ~(Top.next <= Len(succ[Top.block]))
      /\ result' = Append(result, Top.block) /\ stack' = SubSeq(stack, 1, Len(stack) - 1)
      /\ UNCHANGED <<succ, visited, pc>>
  BY DEF Return, HasNext, Push
<1>2. PICK s : s = [seen |-> visited, out |-> result]
  OBVIOUS
<1>3. PICK visit, w : /\ VisitLevels(succ, visit) /\ PostOrderVisitor(succ) = visit[N]
                      /\ Resumes(succ, visit, stack, s, w)
  BY <1>1, <1>2 DEF MatchInv, Reference
<1>4. PICK g \in Cfgs : g = succ
  BY DEF MatchInv, IInv, TypeOK
<1>5. PICK n \in 1 .. N : n = Len(stack)
  BY <1>1, TopFacts DEF MatchInv
<1>6. PICK f \in Frame : f = Top /\ f = stack[n]
  BY <1>1, <1>5, TopFacts DEF MatchInv
<1>7. f.next > Len(g[f.block])
  <2>1. f.next \in Nat /\ Len(g[f.block]) \in Nat
    BY RestFacts
  <2> QED
    BY <1>1, <1>4, <1>6, <2>1
<1>8. PICK st : st = SubSeq(stack, 1, n - 1)
  OBVIOUS
<1>9. Len(st) = n - 1 /\ \A i \in 1 .. n - 1 : st[i] = stack[i]
  <2>1. stack \in Seq(Frame)
    BY DEF MatchInv, IInv, TypeOK
  <2> QED
    BY <1>5, <1>8, <2>1
<1>10. Resumes(g, visit, st, [s EXCEPT !.out = Append(@, f.block)], w)
  BY <1>3, <1>4, <1>5, <1>6, <1>7, <1>9, ResumesReturn
<1>11. [s EXCEPT !.out = Append(@, f.block)] = [seen |-> visited', out |-> result']
  <2>1. PICK o : o = Append(s.out, f.block)
    OBVIOUS
  <2>2. [s EXCEPT !.out = Append(@, f.block)] = [s EXCEPT !.out = o]
    BY <2>1
  <2>3. o = result' /\ visited' = visited
    BY <1>1, <1>2, <1>6, <2>1
  <2>4. [s EXCEPT !.out = o] = [seen |-> visited', out |-> result']
    BY <1>2, <2>3
  <2> QED
    BY <2>2, <2>4
<1> QED
  BY <1>1, <1>3, <1>4, <1>5, <1>8, <1>10, <1>11 DEF Reference

LEMMA FinishMatches == ASSUME MatchInv, Finish, present = Block PROVE Reference'
<1>1. pc = "visit" /\ stack = <<>> /\ UNCHANGED <<succ, result>> /\ pc' = "done"
  BY DEF Finish
<1>2. PICK visit, w : /\ PostOrderVisitor(succ) = visit[N]
                      /\ Resumes(succ, visit, stack, [seen |-> visited, out |-> result], w)
  BY <1>1 DEF MatchInv, Reference
<1>3. [seen |-> visited, out |-> result] = visit[N][Blank][Root]
  BY <1>1, <1>2 DEF Resumes
<1>4. result = PostOrder(succ)
  BY <1>2, <1>3 DEF PostOrder, Blank
<1> QED
  BY <1>1, <1>4 DEF Reference

LEMMA MatchInductive == Spec => []MatchInv
<1>1. Init => MatchInv
  BY InitInv DEF MatchInv, Reference, Init
<1>2. ASSUME MatchInv, [Next]_vars PROVE MatchInv'
  <2>1. IInv'
    BY <1>2, NextInv DEF MatchInv
  <2>2. CASE UNCHANGED vars
    BY <1>2, <2>1, <2>2 DEF MatchInv, Reference, vars
  <2>3. ASSUME present' = Block PROVE Reference'
    <3>1. CASE Start
      BY <1>2, <2>3, <3>1, StartMatches DEF Start
    <3>2. CASE Skip
      BY <1>2, <2>3, <3>2, SkipMatches DEF Skip
    <3>3. CASE Enter
      BY <1>2, <2>1, <2>3, <3>3, EnterMatches DEF Enter
    <3>4. CASE Return
      BY <1>2, <2>3, <3>4, ReturnMatches DEF Return
    <3>5. CASE Finish
      BY <1>2, <2>3, <3>5, FinishMatches DEF Finish
    <3>6. CASE UNCHANGED vars
      BY <1>2, <2>3, <3>6 DEF MatchInv, Reference, vars
    <3> QED
      BY <1>2, <3>1, <3>2, <3>3, <3>4, <3>5, <3>6 DEF Next, Step, Terminated
  <2> QED
    BY <2>1, <2>3 DEF MatchInv
<1> QED
  BY <1>1, <1>2, PTL DEF Spec

\* On every complete graph the order that the pass leaves is the one that the
\* models of the later passes compute as a function of the graph.
THEOREM OrderIsReference == Spec => []MatchesReference
<1>1. MatchInv => MatchesReference
  BY DEF MatchInv, Reference, MatchesReference, IInv, Phases, ReversePostOrder
<1> QED
  BY <1>1, MatchInductive, PTL
=============================================================================
