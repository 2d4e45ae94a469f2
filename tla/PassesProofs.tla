----------------------------- MODULE PassesProofs -----------------------------
(***************************************************************************)
(* Theorems about the quadratic dominator analysis of DomTreeSlow, for     *)
(* graphs of every size, any number of epochs, and a reverse post-order    *)
(* that was valid before the pass or was not; and about the passes of a    *)
(* graph, run by a client in any order and by each other, for every graph, *)
(* every number of slots and epochs, every set of passes that the client   *)
(* wants, and every way in which Inlining changes the graph among them.    *)
(***************************************************************************)
EXTENDS Passes, ControlFlowProofs

(***************************************************************************)
(* DomTreeSlow on its own.                                                 *)
(***************************************************************************)
Types ==
  /\ succ \in Cfgs /\ ordered \in Cfgs
  /\ size \in 1 .. N
  /\ dominators \in [Block -> Seq(Block)]
  /\ rpo \subseteq Block
  /\ bb \in 2 .. size + 1
  /\ pc \in {"start", "unbind", "rerun", "bind", "done", "abort", "undefined"}

\* A block is out of the graph only while its turn lasts, and the order that
\* Bind reads is the one of the graph without it.
Turns ==
  /\ pc \in {"start", "unbind", "done"} => present = Block
  /\ pc \in {"rerun", "bind"} => present = Block \ {bb}
  /\ pc = "start" => bb = 2 /\ dominators = [b \in Block |-> <<>>]
  /\ pc \in {"unbind", "rerun", "bind"} =>
       bb \in 2 .. size /\ initReach = Reachable(reached) /\ analysed = succ
  /\ pc = "bind" => rpo = Reach(succ, present)

\* The entry is listed when the turn of b has begun.
Opened(b) == b < bb \/ (b = bb /\ pc \in {"rerun", "bind"})

\* The dominators that b lists so far.
Listed(b) ==
  (IF Opened(b) THEN {Root} ELSE {}) \cup
  (IF b \in Reachable(reached) THEN {d \in 2 .. bb - 1 : Dominates(analysed, d, b)} ELSE {})

Distinct(s) == \A i, j \in DOMAIN s : s[i] = s[j] => i = j

Lists ==
  pc \in {"unbind", "rerun", "bind", "done"} =>
    \A b \in Block : Range(dominators[b]) = Listed(b) /\ Distinct(dominators[b])

\* A valid order is known to be the one of an earlier graph.
Behind == rpoValid /\ ordered # succ

\* What the order was made of, and that it is out of date neither between the
\* two resets of a turn nor after a loop over all the blocks there are.
Order ==
  /\ rpoValid => rpo = Reach(ordered, present)
  /\ Behind => size > 1 /\ pc \notin {"rerun", "bind"} /\ ~(pc = "done" /\ bb > size)

IInv == Types /\ Turns /\ Lists /\ Order

-----------------------------------------------------------------------------
(***************************************************************************)
(* Lists and reachability.                                                 *)
(***************************************************************************)
LEMMA AppendOne ==
  ASSUME NEW s \in Seq(Block), NEW d \in Block
  PROVE  /\ Append(s, d) \in Seq(Block)
         /\ Range(Append(s, d)) = Range(s) \cup {d}
         /\ Distinct(s) /\ d \notin Range(s) => Distinct(Append(s, d))
<1>1. /\ Append(s, d) \in Seq(Block) /\ Len(Append(s, d)) = Len(s) + 1
      /\ DOMAIN s = 1 .. Len(s) /\ DOMAIN Append(s, d) = 1 .. Len(s) + 1 /\ Len(s) \in Nat
      /\ \A i \in 1 .. Len(s) : Append(s, d)[i] = s[i]
      /\ Append(s, d)[Len(s) + 1] = d
  OBVIOUS
<1>2. Range(Append(s, d)) = Range(s) \cup {d}
  <2>1. 1 .. Len(s) + 1 = (1 .. Len(s)) \cup {Len(s) + 1}
    BY <1>1
  <2> QED
    BY <1>1, <2>1 DEF Range
<1>3. ASSUME Distinct(s), d \notin Range(s), NEW i \in 1 .. Len(s) + 1, NEW j \in 1 .. Len(s) + 1,
             Append(s, d)[i] = Append(s, d)[j]
      PROVE  i = j
  BY <1>1, <1>3 DEF Distinct, Range
<1> QED
  BY <1>1, <1>2, <1>3 DEF Distinct

\* Only bound blocks and the entry are reached.
LEMMA ReachBound ==
  ASSUME NEW P \in SUBSET Block, succ \in Cfgs
  PROVE  Reach(succ, P) \subseteq P \cup {Root} /\ Reach(succ, P) \subseteq Block /\ Root \in Reach(succ, P)
<1>1. Root \in Block /\ P \cup {Root} \in SUBSET Block
  BY SizeAssumption DEF Root, Block
<1>2. Closed(succ, P, Root, P \cup {Root})
  BY DEF Closed
<1> QED
  BY <1>1, <1>2, ReachSelf, ReachOn DEF Reach

\* What drops out of the order is what the missing block dominates.
LEMMA LostIsDominated ==
  ASSUME succ \in Cfgs, NEW d \in 2 .. N, NEW graph
  PROVE  Lost(Reachable(graph), Reach(succ, Block \ {d}))
           = {b \in Reachable(graph) : Dominates(succ, d, b)}
<1>1. d \in Block /\ d # Root
  BY DEF Block, Root
<1>2. d \notin Reach(succ, Block \ {d})
  BY <1>1, ReachBound
<1> QED
  BY <1>1, <1>2 DEF Lost, Dominates

-----------------------------------------------------------------------------
LEMMA InitInv == Init => IInv
<1> SUFFICES ASSUME Init PROVE IInv
  OBVIOUS
<1>1. Types
  <2>1. Reachable(succ) \subseteq Block
    BY ReachBound DEF Init, Reachable
  <2>2. \A b \in Block : <<>> \in Seq(Block)
    OBVIOUS
  <2> QED
    BY <2>1, <2>2, SizeAssumption DEF Init, Types
<1>2. Turns /\ Lists /\ Order
  BY DEF Init, Turns, Lists, Order, Behind, Reachable
<1> QED
  BY <1>1, <1>2 DEF IInv

\* RunPass<RPO> leaves an order of the blocks that are bound, and does not bring
\* it out of date.
LEMMA OrderKept ==
  ASSUME IInv, NEW next, RunRPO(next), next # "abort", UNCHANGED <<succ, present>>, present \subseteq Block
  PROVE  /\ pc' \in {next, "abort"} /\ rpo' \subseteq Block /\ ordered' \in Cfgs
         /\ rpoValid' => rpo' = Reach(ordered', present)
         /\ pc' = next => rpoValid'
         /\ Behind' => Behind /\ pc' = next
<1>1. Reach(succ, present) \subseteq Block
  BY ReachBound DEF IInv, Types
<1>2. rpoValid => rpo = Reach(ordered, present)
  BY DEF IInv, Order
<1>3. CASE rpoValid
  BY <1>2, <1>3 DEF RunRPO, IInv, Types, Behind
<1>4. CASE ~rpoValid
  BY <1>1, <1>4 DEF RunRPO, IInv, Types, Behind
<1> QED
  BY <1>3, <1>4

LEMMA StartInv == IInv /\ Start => IInv'
<1> SUFFICES ASSUME IInv, Start PROVE IInv'
  OBVIOUS
<1> DEFINE next == IF size > 1 THEN "unbind" ELSE "done"
<1>1. /\ pc = "start" /\ RunRPO(next) /\ present = Block /\ bb = 2 /\ size \in 1 .. N
      /\ dominators = [b \in Block |-> <<>>] /\ succ \in Cfgs
      /\ succ' = succ /\ size' = size /\ present' = present /\ bb' = bb
  BY DEF Start, IInv, Turns, Types
<1>2. /\ pc' \in {next, "abort"} /\ rpo' \subseteq Block /\ ordered' \in Cfgs
      /\ rpoValid' => rpo' = Reachable(ordered')
      /\ pc' = next => rpoValid'
      /\ Behind' => Behind /\ pc' = next
  BY <1>1, OrderKept DEF Reachable
<1>3. Order'
  <2>1. Behind' => size > 1
    BY <1>2 DEF IInv, Order
  <2> QED
    BY <1>1, <1>2, <2>1 DEF Order, Reachable
<1>4. CASE pc' = "abort"
  <2>1. dominators' = dominators
    BY <1>4 DEF Start
  <2> QED
    BY <1>1, <1>2, <1>3, <1>4, <2>1 DEF IInv, Types, Turns, Lists
<1>5. CASE pc' = next
  <2>1. /\ initReach' = Reachable(reached') /\ analysed' = succ
        /\ dominators' = AddDominator(dominators, {Root}, Root)
    BY <1>2, <1>5 DEF Start
  <2>2. Root \in Block /\ size \in 1 .. N /\ N \in Nat \ {0} /\ Block = 1 .. N
    BY <1>1, SizeAssumption DEF Root, Block
  <2>3. dominators' = [b \in Block |-> IF b = Root THEN <<Root>> ELSE <<>>]
    BY <1>1, <2>1, <2>2 DEF AddDominator
  <2>4. Types'
    <3>1. <<Root>> \in Seq(Block) /\ <<>> \in Seq(Block)
      BY <2>2
    <3>2. dominators' \in [Block -> Seq(Block)]
      BY <2>3, <3>1
    <3>3. bb' \in 2 .. size' + 1
      BY <1>1, <2>2
    <3> QED
      BY <1>1, <1>2, <1>5, <3>2, <3>3 DEF Types
  <2>5. Turns'
    BY <1>1, <1>5, <2>1, <2>2 DEF Turns
  <2>6. Lists'
    <3> SUFFICES ASSUME NEW b \in Block
                 PROVE  Range(dominators'[b]) = Listed(b)' /\ Distinct(dominators'[b])
      BY DEF Lists
    <3>1. Listed(b)' = IF b = Root THEN {Root} ELSE {}
      BY <1>1, <1>5, <2>2 DEF Listed, Opened, Root
    <3>2. CASE b = Root
      BY <2>3, <3>1, <3>2 DEF Range, Distinct
    <3>3. CASE b # Root
      BY <2>3, <3>1, <3>3 DEF Range, Distinct
    <3> QED
      BY <3>2, <3>3
  <2> QED
    BY <1>3, <2>4, <2>5, <2>6 DEF IInv
<1> QED
  BY <1>2, <1>4, <1>5

LEMMA UnbindInv == IInv /\ Unbind => IInv'
<1> SUFFICES ASSUME IInv, Unbind PROVE IInv'
  OBVIOUS
<1>1. /\ pc = "unbind" /\ pc' = "rerun" /\ present = Block /\ bb \in 2 .. size
      /\ initReach = Reachable(reached) /\ rpoValid' = FALSE /\ present' = Block \ {bb}
      /\ dominators' = AddDominator(dominators, {bb}, Root)
      /\ succ' = succ /\ size' = size /\ rpo' = rpo /\ initReach' = initReach /\ bb' = bb
      /\ ordered' = ordered /\ reached' = reached /\ analysed' = analysed /\ analysed = succ
  BY DEF Unbind, IInv, Turns, Invalidate
<1>2. Root \in Block /\ bb \in Block /\ bb # Root /\ Root \notin 2 .. bb - 1
  BY <1>1, SizeAssumption DEF Root, Block, IInv, Types
<1>3. /\ dominators \in [Block -> Seq(Block)]
      /\ \A b \in Block : Range(dominators[b]) = Listed(b) /\ Distinct(dominators[b])
  BY <1>1 DEF IInv, Types, Lists
<1>4. \A b \in Block : dominators'[b] = IF b = bb THEN Append(dominators[b], Root) ELSE dominators[b]
  BY <1>1 DEF AddDominator
<1>5. Types'
  <2>1. dominators' \in [Block -> Seq(Block)]
    BY <1>1, <1>2, <1>3, AppendOne DEF AddDominator
  <2> QED
    BY <1>1, <2>1 DEF IInv, Types
<1>6. Turns' /\ Order'
  BY <1>1 DEF Turns, Order, Behind
<1>7. ASSUME NEW b \in Block
      PROVE  Range(dominators'[b]) = Listed(b)' /\ Distinct(dominators'[b])
  <2>1. CASE b = bb
    <3>1. Root \notin Range(dominators[b])
      BY <1>1, <1>2, <1>3, <2>1 DEF Listed, Opened
    <3>2. Listed(b)' = Listed(b) \cup {Root}
      BY <1>1, <2>1 DEF Listed, Opened
    <3> QED
      BY <1>2, <1>3, <1>4, <2>1, <3>1, <3>2, AppendOne
  <2>2. CASE b # bb
    <3>1. Listed(b)' = Listed(b)
      BY <1>1, <2>2 DEF Listed, Opened
    <3> QED
      BY <1>3, <1>4, <2>2, <3>1
  <2> QED
    BY <2>1, <2>2
<1> QED
  BY <1>5, <1>6, <1>7 DEF IInv, Lists

LEMMA RerunInv == IInv /\ Rerun => IInv'
<1> SUFFICES ASSUME IInv, Rerun PROVE IInv'
  OBVIOUS
<1>1. /\ pc = "rerun" /\ RunRPO("bind") /\ present = Block \ {bb} /\ bb \in 2 .. size
      /\ initReach = Reachable(reached) /\ analysed = succ /\ ~Behind
      /\ UNCHANGED <<succ, size, present, dominators, initReach, bb, reached, analysed>>
  BY DEF Rerun, IInv, Turns, Order
<1>2. /\ pc' \in {"bind", "abort"} /\ rpo' \subseteq Block /\ ordered' \in Cfgs
      /\ rpoValid' => rpo' = Reach(ordered', present)
      /\ pc' = "bind" => rpoValid'
      /\ ~Behind'
  BY <1>1, OrderKept
<1>3. Types' /\ Turns' /\ Order'
  <2>1. pc' = "bind" => rpo' = Reach(succ, present)
    BY <1>1, <1>2 DEF Behind
  <2> QED
    BY <1>1, <1>2, <2>1 DEF IInv, Types, Turns, Order
<1>4. ASSUME pc' = "bind" PROVE Lists'
  <2>1. \A b \in Block : Listed(b)' = Listed(b)
    BY <1>1, <1>4 DEF Listed, Opened
  <2> QED
    BY <1>1, <2>1 DEF IInv, Lists
<1>5. Lists'
  BY <1>2, <1>4 DEF Lists
<1> QED
  BY <1>2, <1>3, <1>5 DEF IInv

LEMMA BindInv == IInv /\ Bind => IInv'
<1> SUFFICES ASSUME IInv, Bind PROVE IInv'
  OBVIOUS
<1> DEFINE lost == Lost(initReach, rpo)
<1>1. /\ pc = "bind" /\ present = Block \ {bb} /\ bb \in 2 .. size /\ bb \in Block
      /\ initReach = Reachable(reached) /\ rpo = Reach(succ, Block \ {bb}) /\ analysed = succ
      /\ rpoValid' = FALSE /\ present' = Block /\ bb' = bb + 1
      /\ pc' = IF bb + 1 <= size THEN "unbind" ELSE "done"
      /\ dominators' = AddDominator(dominators, lost, bb)
      /\ succ' = succ /\ size' = size /\ rpo' = rpo /\ initReach' = initReach /\ succ \in Cfgs
      /\ ordered' = ordered /\ reached' = reached /\ analysed' = analysed /\ size \in 1 .. N
  <2>1. pc = "bind" /\ succ \in Cfgs /\ bb \in 2 .. size /\ present = Block \ {bb} /\ size \in 1 .. N
        /\ initReach = Reachable(reached) /\ rpo = Reach(succ, present) /\ analysed = succ
    BY DEF Bind, IInv, Types, Turns
  <2>2. bb \in Block
    BY <2>1, SizeAssumption DEF Block
  <2>3. present' = Block
    BY <2>1, <2>2 DEF Bind
  <2> QED
    BY <2>1, <2>2, <2>3 DEF Bind, Invalidate, LoopHead
<1>2. lost = {b \in Reachable(reached) : Dominates(analysed, bb, b)}
  <2>1. bb \in 2 .. N
    BY <1>1, SizeAssumption
  <2> QED
    BY <1>1, <2>1, LostIsDominated
<1>3. /\ dominators \in [Block -> Seq(Block)]
      /\ \A b \in Block : Range(dominators[b]) = Listed(b) /\ Distinct(dominators[b])
  BY <1>1 DEF IInv, Types, Lists
<1>4. \A b \in Block : dominators'[b] = IF b \in lost THEN Append(dominators[b], bb) ELSE dominators[b]
  BY <1>1 DEF AddDominator
<1>5. Types'
  <2>1. dominators' \in [Block -> Seq(Block)]
    BY <1>1, <1>3, AppendOne DEF AddDominator
  <2>2. bb \in 2 .. size /\ bb' = bb + 1 /\ size \in Nat
    BY <1>1, SizeAssumption
  <2>3. bb' \in 2 .. size' + 1
    BY <1>1, <2>2
  <2>4. rpo' \subseteq Block /\ ordered' \in Cfgs
    BY <1>1 DEF IInv, Types
  <2> QED
    BY <1>1, <2>1, <2>3, <2>4 DEF Types
<1>6. Turns' /\ Order'
  BY <1>1, SizeAssumption DEF Turns, Order, Behind
<1>7. ASSUME NEW b \in Block
      PROVE  Range(dominators'[b]) = Listed(b)' /\ Distinct(dominators'[b])
  <2>1. Opened(b)' <=> Opened(b)
    <3>1. b \in Int /\ bb \in Int
      BY <1>1 DEF Block
    <3>2. Opened(b) <=> b <= bb
      BY <1>1, <3>1 DEF Opened
    <3>3. Opened(b)' <=> b < bb + 1
      BY <1>1, <3>1 DEF Opened
    <3> QED
      BY <3>1, <3>2, <3>3
  <2>2. 2 .. bb' - 1 = (2 .. bb - 1) \cup {bb} /\ bb \notin 2 .. bb - 1 /\ bb # Root
    BY <1>1 DEF Root
  <2>3. CASE b \in lost
    <3>1. Listed(b)' = Listed(b) \cup {bb}
      BY <1>1, <1>2, <2>1, <2>2, <2>3 DEF Listed
    <3>2. bb \notin Range(dominators[b])
      BY <1>3, <2>2 DEF Listed
    <3>3. dominators'[b] = Append(dominators[b], bb) /\ dominators[b] \in Seq(Block)
      BY <1>3, <1>4, <2>3
    <3>4. Range(dominators'[b]) = Range(dominators[b]) \cup {bb} /\ Distinct(dominators'[b])
      BY <1>1, <1>3, <3>2, <3>3, AppendOne
    <3> QED
      BY <1>3, <3>1, <3>4
  <2>4. CASE b \notin lost
    <3>1. Listed(b)' = Listed(b)
      BY <1>1, <1>2, <2>1, <2>2, <2>4 DEF Listed
    <3> QED
      BY <1>3, <1>4, <2>4, <3>1
  <2> QED
    BY <2>3, <2>4
<1> QED
  BY <1>5, <1>6, <1>7 DEF IInv, Lists

LEMMA NextInv == IInv /\ [Next]_vars => IInv'
<1> SUFFICES ASSUME IInv, [Next]_vars PROVE IInv'
  OBVIOUS
<1>1. CASE Start
  BY <1>1, StartInv
<1>2. CASE Unbind
  BY <1>2, UnbindInv
<1>3. CASE Rerun
  BY <1>3, RerunInv
<1>4. CASE Bind
  BY <1>4, BindInv
<1>5. CASE UNCHANGED vars
  BY <1>5 DEF vars, IInv, Types, Turns, Lists, Listed, Opened, Order, Behind
<1> QED
  BY <1>1, <1>2, <1>3, <1>4, <1>5 DEF Next, Terminated

LEMMA Inductive == Spec => []IInv
<1> QED
  BY InitInv, NextInv, PTL DEF Spec

\* Nothing else changes the graph, and the loop goes to its end.
Alone == /\ ordered = succ /\ reached = succ /\ analysed = succ
         /\ pc = "done" => bb = size + 1

LEMMA AloneNext == IInv /\ Alone /\ [Next]_vars => Alone'
<1> SUFFICES ASSUME IInv, Alone, [Next]_vars PROVE Alone'
  OBVIOUS
<1>1. size \in Nat \ {0} /\ (pc = "start" => bb = 2) /\ (pc = "bind" => bb \in 2 .. size)
  BY DEF IInv, Types, Turns
<1>2. CASE Start
  <2>1. /\ ordered' = succ /\ pc' \in {IF size > 1 THEN "unbind" ELSE "done", "abort"}
        /\ reached' = succ /\ analysed' = succ
    BY <1>2 DEF Start, RunRPO, Alone
  <2>2. succ' = succ /\ size' = size /\ bb' = bb /\ bb = 2
    BY <1>1, <1>2 DEF Start
  <2>3. pc' = "done" => size = 1
    BY <1>1, <2>1
  <2> QED
    BY <2>1, <2>2, <2>3 DEF Alone
<1>3. CASE Unbind
  BY <1>3 DEF Unbind, Alone
<1>4. CASE Rerun
  BY <1>4 DEF Rerun, RunRPO, Alone
<1>5. CASE Bind
  BY <1>1, <1>5 DEF Bind, LoopHead, Alone
<1>6. CASE UNCHANGED vars
  BY <1>6 DEF vars, Alone
<1> QED
  BY <1>2, <1>3, <1>4, <1>5, <1>6 DEF Next, Terminated

(***************************************************************************)
(* As long as nothing but RPO runs beside it, a set validity bit means     *)
(* that the order is the one of the blocks bound now: no pass that runs    *)
(* after DomTreeSlow reads the order of a graph with a hole; and the loop  *)
(* goes over all blocks of the graph that it started from.                 *)
(***************************************************************************)
THEOREM NeverStale == Spec => []Undisturbed
<1>1. Init => Alone
  BY DEF Init, Alone
<1>2. IInv /\ Alone => Undisturbed
  BY DEF IInv, Order, Alone, Undisturbed, UpToDate
<1> QED
  BY <1>1, <1>2, AloneNext, Inductive, PTL DEF Spec

LEMMA InvDominatorsExact == IInv => DominatorsExact
<1> SUFFICES ASSUME IInv, pc = "done", NEW b \in 1 .. bb - 1
             PROVE  /\ Range(dominators[b]) = IF b \in Reachable(reached)
                                              THEN {d \in 1 .. bb - 1 : Dominates(analysed, d, b)}
                                              ELSE {Root}
                    /\ Distinct(dominators[b])
  BY DEF DominatorsExact, Distinct
<1>1. size \in 1 .. N /\ bb \in 2 .. size + 1 /\ N \in Nat
  BY SizeAssumption DEF IInv, Types
<1>2. b \in Block /\ b < bb /\ 1 .. bb - 1 = {Root} \cup 2 .. bb - 1
  BY <1>1 DEF Block, Root
<1>3. Range(dominators[b]) = Listed(b) /\ Distinct(dominators[b])
  BY <1>2 DEF IInv, Lists
<1>4. Listed(b) = {Root} \cup (IF b \in Reachable(reached)
                               THEN {d \in 2 .. bb - 1 : Dominates(analysed, d, b)} ELSE {})
  BY <1>2 DEF Listed, Opened
<1>5. Dominates(analysed, Root, b)
  BY DEF Dominates
<1> QED
  BY <1>2, <1>3, <1>4, <1>5

(***************************************************************************)
(* The loop over the unbound blocks computes dominance, on every graph.    *)
(***************************************************************************)
THEOREM ComputesDominators == Spec => []DominatorsExact
<1> QED
  BY InvDominatorsExact, Inductive, PTL

-----------------------------------------------------------------------------
(***************************************************************************)
(* The passes of a graph.                                                  *)
(***************************************************************************)
Op == PassList \cup {"unbinding", "new", "erase", "loops", "rewrite", "invalidate", "sweep",
                   "calls"}

\* After the rewriting a pass has only the sweep to ask for.
Finishing(todo) ==
  \A i \in DOMAIN todo :
    todo[i] = "rewrite" => /\ Len(todo) = i + 2
                           /\ todo[i + 1] = "invalidate" /\ todo[i + 2] = "DCE"

Call == {c \in [pass : PassList, todo : Seq(Op)] : Finishing(c.todo)}

\* Blocks are out of the graph only while the running pass is DomTreeSlow.
Holes == pc \in {"unbind", "rerun", "bind"} =>
           calls # <<>> /\ Current.todo # <<>> /\ Head(Current.todo) = "unbinding"

\* What has been rewritten is about to be swept: by the running pass, or by a
\* DCE that the running pass is about to run, whose bit is not set.
Sweeping ==
  /\ calls # <<>>
  /\ \/ Current.todo = <<"invalidate", "DCE">>
     \/ Current.todo = <<"DCE">> /\ "DCE" \notin valid
     \/ Current.todo = <<"new", "sweep", "erase">>
     \/ Current.todo = <<"sweep", "erase">>

Managed == calls \in Seq(Call) /\ Holes /\ (dead => Sweeping) /\ sites \subseteq 1 .. size

PassInv == IInv /\ Managed

-----------------------------------------------------------------------------
(***************************************************************************)
(* The call stack.                                                         *)
(***************************************************************************)
LEMMA Push ==
  ASSUME NEW S, NEW s \in Seq(S), NEW e \in S
  PROVE  Append(s, e) \in Seq(S) /\ Append(s, e) # <<>> /\ Last(Append(s, e)) = e
<1>1. Append(s, e) \in Seq(S) /\ Len(Append(s, e)) = Len(s) + 1 /\ Append(s, e)[Len(s) + 1] = e
      /\ Len(s) \in Nat
  OBVIOUS
<1> QED
  BY <1>1 DEF Last

LEMMA Pop ==
  ASSUME NEW S, NEW s \in Seq(S), s # <<>>
  PROVE  Front(s) \in Seq(S) /\ Last(s) \in S
<1>1. Len(s) \in Nat /\ Len(s) > 0 /\ \A i \in 1 .. Len(s) : s[i] \in S
  OBVIOUS
<1>2. Last(s) \in S
  BY <1>1 DEF Last
<1>3. SubSeq(s, 1, Len(s) - 1) \in Seq(S)
  BY <1>1
<1> QED
  BY <1>2, <1>3 DEF Front

LEMMA ShorterCall ==
  ASSUME NEW c \in Call, c.todo # <<>>
  PROVE  [c EXCEPT !.todo = Tail(@)] \in Call /\ [c EXCEPT !.todo = Tail(@)].todo = Tail(c.todo)
<1> DEFINE t == c.todo
<1>1. c \in [pass : PassList, todo : Seq(Op)] /\ t \in Seq(Op) /\ t # <<>> /\ Finishing(t)
  BY DEF Call
<1>2. /\ Tail(t) \in Seq(Op) /\ Len(Tail(t)) = Len(t) - 1 /\ Len(t) \in Nat \ {0}
      /\ DOMAIN t = 1 .. Len(t) /\ DOMAIN Tail(t) = 1 .. Len(t) - 1
      /\ \A i \in 1 .. Len(t) - 1 : Tail(t)[i] = t[i + 1]
  BY <1>1
<1>3. ASSUME NEW i \in 1 .. Len(t) - 1, Tail(t)[i] = "rewrite"
      PROVE  Len(Tail(t)) = i + 2 /\ Tail(t)[i + 1] = "invalidate" /\ Tail(t)[i + 2] = "DCE"
  <2>1. i + 1 \in DOMAIN t /\ t[i + 1] = "rewrite"
    BY <1>2, <1>3
  <2>2. Len(t) = i + 3 /\ t[i + 2] = "invalidate" /\ t[i + 3] = "DCE"
    BY <1>1, <1>2, <2>1 DEF Finishing
  <2> QED
    BY <1>2, <2>2
<1>4. Finishing(Tail(t))
  BY <1>2, <1>3 DEF Finishing
<1> QED
  BY <1>1, <1>2, <1>4 DEF Call

LEMMA NewCall == ASSUME NEW p \in PassList \ {"RPO"} PROVE Called(p) \in Call
<1> DEFINE Calm(s) == s \in Seq(Op) /\ \A i \in DOMAIN s : s[i] # "rewrite"
<1>1. ASSUME NEW x \in Op, NEW y \in Op, NEW z \in Op, x # "rewrite", y # "rewrite", z # "rewrite"
      PROVE  Calm(<<x>>) /\ Calm(<<x, y>>) /\ Calm(<<x, y, z>>)
  BY <1>1
<1>2. CASE p \in Rewriting
  <2>1. Script(p) = <<"RPO", "rewrite", "invalidate", "DCE">>
    BY <1>2 DEF Script, RewriteScript, Rewriting
  <2>2. Script(p) \in Seq(Op)
    BY <2>1 DEF Op, PassList, Rewriting
  <2>3. Finishing(Script(p))
    BY <2>1 DEF Finishing
  <2> QED
    BY <2>2, <2>3 DEF Called, Call
<1>3. CASE p = "LoopAnalyzer"
  <2>1. Script(p) = <<"DomTreeFast", "new", "new", "erase", "erase", "RPO", "loops">>
    BY <1>3 DEF Script, Rewriting
  <2>2. Script(p) \in Seq(Op)
    BY <2>1 DEF Op, PassList, Rewriting
  <2>3. Finishing(Script(p))
    BY <2>1 DEF Finishing
  <2> QED
    BY <2>2, <2>3 DEF Called, Call
<1>4. CASE p \notin Rewriting \cup {"LoopAnalyzer"}
  <2>1. \E x, y, z \in Op \ {"rewrite"} : Script(p) \in {<<x>>, <<x, y>>, <<x, y, z>>}
    <3>1. CASE p = "DomTreeSlow"
      BY <3>1 DEF Script, Op, Rewriting
    <3>2. CASE p = "DomTreeFast"
      BY <3>2 DEF Script, Op, Rewriting
    <3>3. CASE p = "DCE"
      BY <3>3 DEF Script, Op, Rewriting
    <3>4. CASE p = "CheckElimination"
      BY <3>4 DEF Script, Op, PassList, Rewriting
    <3>5. CASE p = "LinearOrder"
      BY <3>5 DEF Script, Op, PassList, Rewriting
    <3>6. CASE p = "LivenessAnalysis"
      BY <3>6 DEF Script, Op, PassList, Rewriting
    <3>7. CASE p = "RegAlloc"
      BY <3>7 DEF Script, Op, PassList, Rewriting
    <3>8. CASE p = "Inlining"
      BY <3>8 DEF Script, Op, Rewriting
    <3> QED
      BY <1>4, <3>1, <3>2, <3>3, <3>4, <3>5, <3>6, <3>7, <3>8 DEF PassList
  <2>2. Calm(Script(p))
    BY <1>1, <2>1
  <2>3. Script(p) \in Seq(Op) /\ Finishing(Script(p))
    BY <2>2 DEF Finishing
  <2> QED
    BY <2>3 DEF Called, Call
<1> QED
  BY <1>2, <1>3, <1>4

LEMMA Rewritten ==
  ASSUME NEW t \in Seq(Op), t # <<>>, t[1] = "rewrite", Finishing(t)
  PROVE  Tail(t) = <<"invalidate", "DCE">>
<1>1. 1 \in DOMAIN t
  OBVIOUS
<1>2. Len(t) = 1 + 2 /\ t[1 + 1] = "invalidate" /\ t[1 + 2] = "DCE"
  BY <1>1 DEF Finishing
<1>3. Len(t) = 3 /\ t[2] = "invalidate" /\ t[3] = "DCE"
  BY <1>2
<1>4. /\ Tail(t) \in Seq(Op) /\ Len(Tail(t)) = Len(t) - 1
      /\ \A i \in 1 .. Len(t) - 1 : Tail(t)[i] = t[i + 1]
  OBVIOUS
<1>5. Len(Tail(t)) = 2 /\ Tail(t)[1] = t[2] /\ Tail(t)[2] = t[3]
  <2>1. Len(t) - 1 = 2 /\ 1 \in 1 .. Len(t) - 1 /\ 2 \in 1 .. Len(t) - 1
    BY <1>3
  <2>2. Tail(t)[1] = t[1 + 1] /\ Tail(t)[2] = t[2 + 1]
    BY <1>4, <2>1
  <2>3. 1 + 1 = 2 /\ 2 + 1 = 3
    OBVIOUS
  <2> QED
    BY <1>4, <2>1, <2>2, <2>3, Zenon
<1> DEFINE rest == <<"invalidate", "DCE">>
<1>6. rest \in Seq(Op) /\ Len(rest) = 2
  BY DEF Op, PassList
<1>7. \A i \in 1 .. 2 : Tail(t)[i] = rest[i]
  BY <1>3, <1>5
<1> HIDE DEF rest
<1>8. Tail(t) = rest
  BY <1>4, <1>5, <1>6, <1>7, SeqEqual
<1> QED
  BY <1>8 DEF rest

LEMMA LongerCall ==
  ASSUME NEW c \in Call, c.todo # <<>>, NEW n \in Nat, NEW s \in Seq(Op), Len(s) = n,
         \A i \in 1 .. n : s[i] # "rewrite"
  PROVE  [c EXCEPT !.todo = s \o Tail(@)] \in Call
<1> DEFINE t == Tail(c.todo)
<1> DEFINE u == s \o t
<1>1. [c EXCEPT !.todo = Tail(@)] \in Call /\ [c EXCEPT !.todo = Tail(@)].todo = t
  BY ShorterCall
<1>2. t \in Seq(Op) /\ Finishing(t) /\ c \in [pass : PassList, todo : Seq(Op)]
  BY <1>1 DEF Call
<1>3. /\ u \in Seq(Op) /\ Len(u) = n + Len(t) /\ Len(t) \in Nat
      /\ \A i \in 1 .. n : u[i] = s[i]
      /\ \A i \in 1 .. Len(t) : u[n + i] = t[i]
      /\ DOMAIN u = 1 .. n + Len(t) /\ DOMAIN t = 1 .. Len(t)
  <2>1. t \in Seq(Op) /\ Len(t) \in Nat /\ DOMAIN t = 1 .. Len(t)
    BY <1>2
  <2>2. /\ u \in Seq(Op) /\ Len(u) = n + Len(t)
        /\ \A i \in 1 .. n + Len(t) : u[i] = IF i <= n THEN s[i] ELSE t[i - n]
    BY <2>1, ConcatProperties
  <2>3. DOMAIN u = 1 .. n + Len(t)
    BY <2>2
  <2> HIDE DEF u, t
  <2>4. \A i \in 1 .. n : u[i] = s[i]
    BY <2>1, <2>2
  <2>5. \A i \in 1 .. Len(t) : u[n + i] = t[i]
    <3> TAKE i \in 1 .. Len(t)
    <3>1. n + i \in 1 .. n + Len(t) /\ ~(n + i <= n) /\ n + i - n = i
      BY <2>1
    <3> QED
      BY <2>2, <3>1
  <2> QED
    BY <2>1, <2>2, <2>3, <2>4, <2>5
<1> HIDE DEF u, t
<1>4. ASSUME NEW i \in DOMAIN u, u[i] = "rewrite"
      PROVE  Len(u) = i + 2 /\ u[i + 1] = "invalidate" /\ u[i + 2] = "DCE"
  <2>1. i \notin 1 .. n
    BY <1>3, <1>4
  <2>2. PICK j \in 1 .. Len(t) : i = n + j
    <3>1. i - n \in 1 .. Len(t) /\ i = n + (i - n)
      BY <1>3, <2>1
    <3> QED
      BY <3>1
  <2>3. t[j] = "rewrite"
    BY <1>3, <1>4, <2>2
  <2>4. Len(t) = j + 2 /\ t[j + 1] = "invalidate" /\ t[j + 2] = "DCE"
    BY <1>2, <1>3, <2>2, <2>3 DEF Finishing
  <2>5. u[n + (j + 1)] = t[j + 1] /\ u[n + (j + 2)] = t[j + 2]
    BY <1>3, <2>2, <2>4
  <2> QED
    BY <1>3, <2>2, <2>4, <2>5
<1>5. Finishing(u)
  BY <1>4 DEF Finishing
<1> QED
  BY <1>2, <1>3, <1>5 DEF Call, u, t

\* Whatever the running pass does next, the calls below it stay.
LEMMA Step ==
  ASSUME Managed, NEW op, Doing(op)
  PROVE  /\ Advanced \in Seq(Call) /\ Advanced # <<>>
         /\ Last(Advanced).todo = Tail(Current.todo)
         /\ Popped \in Seq(Call) /\ Current \in Call
<1>1. calls \in Seq(Call) /\ calls # <<>> /\ Current.todo # <<>>
  BY DEF Managed, Doing, Idle
<1>2. Popped \in Seq(Call) /\ Current \in Call
  BY <1>1, Pop DEF Popped, Current
<1>3. [Current EXCEPT !.todo = Tail(@)] \in Call /\ [Current EXCEPT !.todo = Tail(@)].todo = Tail(Current.todo)
  BY <1>1, <1>2, ShorterCall
<1>4. PICK e : e = [Current EXCEPT !.todo = Tail(@)]
  OBVIOUS
<1>5. Advanced = Append(Popped, e) /\ e \in Call /\ e.todo = Tail(Current.todo)
  BY <1>3, <1>4 DEF Advanced
<1> QED
  BY <1>2, <1>5, Push

\* Outside DomTreeSlow and Inlining a step at most makes an order of the blocks
\* bound.
LEMMA OutsideInv ==
  ASSUME IInv, pc \notin {"unbind", "rerun", "bind"}, pc' \in {pc, "abort", "undefined"},
         UNCHANGED graphVars, rpo' \subseteq Block, ordered' \in Cfgs,
         rpoValid' => rpo' = Reach(ordered', present), Behind' => Behind
  PROVE  IInv'
<1>1. UNCHANGED <<succ, size, present, dominators, initReach, bb, reached, analysed>>
  BY DEF graphVars
<1>2. Types'
  BY <1>1 DEF IInv, Types
<1>3. Turns'
  BY <1>1 DEF IInv, Turns
<1>4. Lists'
  <2>1. \A b \in Block : pc' = "done" => Listed(b)' = Listed(b)
    BY <1>1 DEF Listed, Opened
  <2>2. pc' \in {"unbind", "rerun", "bind", "done"} => pc' = "done" /\ pc = "done"
    OBVIOUS
  <2> QED
    BY <1>1, <2>1, <2>2 DEF IInv, Lists
<1>5. Order'
  BY <1>1 DEF IInv, Order
<1> QED
  BY <1>2, <1>3, <1>4, <1>5 DEF IInv

LEMMA OrderInv ==
  ASSUME IInv, OrderBlocks, ~Stopped, pc \notin {"unbind", "rerun", "bind"}, UNCHANGED graphVars
  PROVE  IInv' /\ pc' \in {pc, "abort", "undefined"} /\ (Behind' => Behind)
<1>1. present \subseteq Block
  BY DEF IInv, Turns, Types, Stopped
<1>2. /\ rpo \subseteq Block /\ ordered \in Cfgs /\ pc # "abort"
      /\ rpoValid => rpo = Reach(ordered, present)
  BY DEF IInv, Types, Order, Stopped
<1>3. UNCHANGED <<succ, present>>
  BY DEF graphVars
<1>4. CASE RunRPO(pc)
  <2>1. /\ pc' \in {pc, "abort"} /\ rpo' \subseteq Block /\ ordered' \in Cfgs
        /\ rpoValid' => rpo' = Reach(ordered', present)
        /\ Behind' => Behind
    BY <1>1, <1>2, <1>3, <1>4, OrderKept
  <2> QED
    BY <2>1, OutsideInv
<1>5. CASE pc' = "undefined" /\ UNCHANGED <<rpo, rpoValid, epoch, ordered>>
  <2>1. /\ rpo' \subseteq Block /\ ordered' \in Cfgs
        /\ rpoValid' => rpo' = Reach(ordered', present)
        /\ Behind' <=> Behind
    BY <1>2, <1>3, <1>5 DEF Behind
  <2> QED
    BY <1>5, <2>1, OutsideInv
<1> QED
  BY <1>4, <1>5 DEF OrderBlocks

\* The variables of DomTreeSlow stay as they are.
LEMMA Unmoved ==
  ASSUME IInv, UNCHANGED vars
  PROVE  IInv'
BY NextInv DEF vars

-----------------------------------------------------------------------------
LEMMA PassInitInv == Init /\ PassInit => PassInv
<1> SUFFICES ASSUME Init, PassInit PROVE PassInv
  OBVIOUS
<1>1. calls \in Seq(Call) /\ ~dead /\ sites \subseteq 1 .. size
  BY DEF PassInit
<1>2. Holes
  BY DEF Init, Holes
<1> QED
  BY <1>1, <1>2, InitInv DEF PassInv, Managed

LEMMA RequestInv == ASSUME PassInv, NEW p \in PassList, Request(p) PROVE PassInv'
<1>1. /\ calls = <<>> /\ ~dead /\ dead' = dead /\ pc \notin {"unbind", "rerun", "bind"}
      /\ UNCHANGED graphVars /\ sites' = sites /\ size' = size
  BY DEF Request, Idle, PassInv, Managed, Holes, Sweeping, graphVars, loopVars
<1>2. CASE p = "RPO"
  <2>1. IInv' /\ pc' \in {pc, "abort", "undefined"} /\ calls' = calls
    BY <1>1, <1>2, OrderInv DEF Request, PassInv
  <2> QED
    BY <1>1, <2>1 DEF PassInv, Managed, Holes
<1>3. CASE p # "RPO"
  <2>1. calls' = <<Called(p)>> /\ UNCHANGED vars
    BY <1>3 DEF Request, vars, graphVars
  <2>2. calls' \in Seq(Call)
    BY <1>3, <2>1, NewCall
  <2> QED
    BY <1>1, <2>1, <2>2, Unmoved DEF PassInv, Managed, Holes, vars
<1> QED
  BY <1>2, <1>3

LEMMA RunPassInv == ASSUME PassInv, NEW p \in PassList, RunPass(p) PROVE PassInv'
<1>1. /\ Doing(p) /\ ~Stopped /\ calls # <<>> /\ Current.todo # <<>> /\ Head(Current.todo) = p
      /\ valid' = valid /\ dead' = dead /\ UNCHANGED graphVars /\ sites' = sites /\ size' = size
  BY DEF RunPass, Doing, Idle, graphVars, loopVars
<1>2. pc \notin {"unbind", "rerun", "bind"}
  BY <1>1 DEF PassInv, Managed, Holes, PassList, Rewriting
<1>3. Advanced \in Seq(Call) /\ Advanced # <<>>
  BY <1>1, Step DEF PassInv
<1>4. CASE p = "RPO"
  <2>1. IInv' /\ pc' \in {pc, "abort", "undefined"} /\ calls' = Advanced
    BY <1>1, <1>2, <1>4, OrderInv DEF RunPass, PassInv
  <2>2. ~dead
    BY <1>1, <1>4 DEF PassInv, Managed, Sweeping
  <2> QED
    BY <1>1, <1>2, <1>3, <2>1, <2>2 DEF PassInv, Managed, Holes
<1>5. CASE p # "RPO"
  <2>1. calls' = (IF IsPassValid(p) THEN Advanced ELSE Append(Advanced, Called(p))) /\ UNCHANGED vars
    BY <1>5 DEF RunPass, vars, graphVars
  <2>2. Called(p) \in Call
    BY <1>5, NewCall
  <2>3. calls' \in Seq(Call)
    BY <1>3, <2>1, <2>2, Push
  <2>4. dead => p = "DCE" /\ "DCE" \notin valid
    BY <1>1 DEF PassInv, Managed, Sweeping, PassList, Rewriting
  <2>5. ASSUME dead PROVE Sweeping'
    <3>1. calls' = Append(Advanced, Called("DCE"))
      BY <2>1, <2>4, <2>5 DEF IsPassValid
    <3>2. calls' # <<>> /\ Last(calls') = Called("DCE")
      BY <1>3, <2>2, <2>4, <2>5, <3>1, Push
    <3>3. Called("DCE").todo = <<"new", "sweep", "erase">>
      BY DEF Called, Script, Rewriting
    <3> QED
      BY <3>2, <3>3 DEF Sweeping, Current
  <2> QED
    BY <1>1, <1>2, <2>1, <2>3, <2>5, Unmoved DEF PassInv, Managed, Holes, vars
<1> QED
  BY <1>4, <1>5

LEMMA ReturnInv == PassInv /\ Return => PassInv'
<1> SUFFICES ASSUME PassInv, Return PROVE PassInv'
  OBVIOUS
<1>1. calls # <<>> /\ Current.todo = <<>> /\ calls' = Popped /\ dead' = dead /\ sites' = sites
      /\ UNCHANGED vars
  BY DEF Return, Idle
<1>2. ~dead /\ pc \notin {"unbind", "rerun", "bind"}
  BY <1>1 DEF PassInv, Managed, Sweeping, Holes
<1>3. calls' \in Seq(Call)
  BY <1>1, Pop DEF PassInv, Managed, Popped
<1> QED
  BY <1>1, <1>2, <1>3, Unmoved DEF PassInv, Managed, Holes, vars

\* The steps of a running pass that touch neither the order nor the blocks.
LEMMA QuietInv ==
  ASSUME PassInv, NEW op, Doing(op), op # "unbinding", calls' = Advanced,
         UNCHANGED <<graphVars, rpo, rpoValid, ordered, sites>>,
         pc' \in {pc, "abort", "undefined"}, dead' => Sweeping'
  PROVE  PassInv'
<1>1. pc \notin {"unbind", "rerun", "bind"}
  BY DEF PassInv, Managed, Holes, Doing
<1>2. calls' \in Seq(Call)
  BY Step DEF PassInv
<1>3. /\ rpo' \subseteq Block /\ ordered' \in Cfgs /\ size' = size
      /\ rpoValid' => rpo' = Reach(ordered', present)
      /\ Behind' <=> Behind
  BY DEF PassInv, IInv, Types, Order, Behind, graphVars
<1>4. IInv'
  BY <1>1, <1>3, OutsideInv DEF PassInv
<1> QED
  BY <1>1, <1>2, <1>3, <1>4 DEF PassInv, Managed, Holes

LEMMA NewMarkerInv == PassInv /\ NewMarker => PassInv'
<1> SUFFICES ASSUME PassInv, NewMarker PROVE PassInv'
  OBVIOUS
<1>1. /\ Doing("new") /\ calls' = Advanced /\ dead' = dead /\ calls # <<>>
      /\ UNCHANGED <<graphVars, rpo, rpoValid, ordered, sites>>
      /\ pc' \in {pc, "abort", "undefined"}
  BY DEF NewMarker, Doing, Idle, loopVars
<1>2. ASSUME dead PROVE Sweeping'
  <2>1. Current.todo = <<"new", "sweep", "erase">>
    BY <1>1, <1>2 DEF PassInv, Managed, Sweeping, Doing
  <2>2. Tail(Current.todo) = <<"sweep", "erase">>
    BY <2>1
  <2>3. calls' # <<>> /\ Last(calls').todo = <<"sweep", "erase">>
    BY <1>1, <2>2, Step DEF PassInv
  <2> QED
    BY <2>3 DEF Sweeping, Current
<1> QED
  BY <1>1, <1>2, QuietInv

LEMMA RewriteInv == PassInv /\ RewriteInsts => PassInv'
<1> SUFFICES ASSUME PassInv, RewriteInsts PROVE PassInv'
  OBVIOUS
<1>1. Doing("rewrite") /\ calls' = Advanced /\ calls # <<>> /\ UNCHANGED vars /\ sites' = sites
  BY DEF RewriteInsts, Doing, Idle, loopVars
<1>2. Sweeping'
  <2> DEFINE t == Current.todo
  <2>1. Current \in Call /\ t # <<>> /\ t[1] = "rewrite"
    BY <1>1, Step DEF PassInv, Doing
  <2>2. t \in Seq(Op) /\ Finishing(t)
    BY <2>1 DEF Call
  <2>4. Tail(t) = <<"invalidate", "DCE">>
    BY <2>1, <2>2, Rewritten
  <2>5. calls' # <<>> /\ Last(calls').todo = <<"invalidate", "DCE">>
    BY <1>1, <2>4, Step DEF PassInv
  <2> QED
    BY <2>5 DEF Sweeping, Current
<1> QED
  BY <1>1, <1>2, QuietInv DEF vars, graphVars

LEMMA InvalidateInv == PassInv /\ InvalidateDCE => PassInv'
<1> SUFFICES ASSUME PassInv, InvalidateDCE PROVE PassInv'
  OBVIOUS
<1>1. /\ Doing("invalidate") /\ calls' = Advanced /\ valid' = valid \ {"DCE"} /\ dead' = dead
      /\ calls # <<>> /\ UNCHANGED vars /\ sites' = sites
  BY DEF InvalidateDCE, Doing, Idle, loopVars
<1>2. ASSUME dead PROVE Sweeping'
  <2>1. Current.todo = <<"invalidate", "DCE">>
    BY <1>1, <1>2 DEF PassInv, Managed, Sweeping, Doing
  <2>2. Tail(Current.todo) = <<"DCE">>
    BY <2>1
  <2>3. calls' # <<>> /\ Last(calls').todo = <<"DCE">>
    BY <1>1, <2>2, Step DEF PassInv
  <2> QED
    BY <1>1, <2>3 DEF Sweeping, Current
<1> QED
  BY <1>1, <1>2, QuietInv DEF vars, graphVars

LEMMA SweepInv == PassInv /\ (Sweep \/ EraseMarker \/ UnboundAll \/ InlinedAll) => PassInv'
<1> SUFFICES ASSUME PassInv, Sweep \/ EraseMarker \/ UnboundAll \/ InlinedAll PROVE PassInv'
  OBVIOUS
<1>1. CASE Sweep
  BY <1>1, QuietInv DEF Sweep, vars, graphVars, loopVars
<1>2. CASE EraseMarker
  <2>1. ~dead
    BY <1>2 DEF EraseMarker, Doing, PassInv, Managed, Sweeping
  <2> QED
    BY <1>2, <2>1, QuietInv DEF EraseMarker, vars, graphVars, loopVars
<1>3. CASE UnboundAll
  <2>1. /\ Doing("unbinding") /\ calls' = Advanced /\ dead' = dead /\ UNCHANGED vars /\ sites' = sites
        /\ pc = "done"
    BY <1>3 DEF UnboundAll, loopVars
  <2>2. ~dead
    BY <2>1 DEF Doing, PassInv, Managed, Sweeping
  <2>3. calls' \in Seq(Call)
    BY <2>1, Step DEF PassInv
  <2> QED
    BY <2>1, <2>2, <2>3, Unmoved DEF PassInv, Managed, Holes, vars
<1>4. CASE InlinedAll
  <2>1. ~dead
    BY <1>4 DEF InlinedAll, Doing, PassInv, Managed, Sweeping
  <2> QED
    BY <1>4, <2>1, QuietInv DEF InlinedAll, vars, graphVars, loopVars
<1> QED
  BY <1>1, <1>2, <1>3, <1>4

\* The list of a block of the callee, with the numbers the blocks get.
LEMMA Moved ==
  ASSUME NEW s \in SuccLists, NEW n \in Nat, \A i \in DOMAIN s : n + s[i] \in Block
  PROVE  [i \in DOMAIN s |-> n + s[i]] \in SuccLists
<1> DEFINE t == [i \in DOMAIN s |-> n + s[i]]
<1>1. CASE s = <<>>
  <2>1. t = <<>>
    BY <1>1
  <2> QED
    BY <2>1 DEF SuccLists
<1>2. ASSUME NEW a \in Block, s = <<a>> PROVE t \in SuccLists
  <2>1. t = <<n + a>> /\ n + a \in Block
    BY <1>2
  <2> QED
    BY <2>1 DEF SuccLists
<1>3. ASSUME NEW a \in Block, NEW b \in Block, s = <<a, b>> PROVE t \in SuccLists
  <2>1. t = <<n + a, n + b>> /\ n + a \in Block /\ n + b \in Block
    BY <1>3
  <2> QED
    BY <2>1 DEF SuccLists
<1> QED
  BY <1>1, <1>2, <1>3 DEF SuccLists

LEMMA SplitCfg ==
  ASSUME succ \in Cfgs, size \in Nat \ {0}, NEW c \in 1 .. size, NEW k \in Nat \ {0}, size + k + 1 <= N,
         NEW body \in Bodies(k)
  PROVE  Split(c, k, body) \in Cfgs
<1> DEFINE g == Split(c, k, body)
           Simple(s) == s \in SuccLists /\ \A i, j \in DOMAIN s : s[i] = s[j] => i = j
<1>1. N \in Nat /\ Block = 1 .. N /\ c \in Block
  BY SizeAssumption DEF Block
<1>2. \A b \in Block : Simple(succ[b])
  BY DEF Cfgs, NoParallelEdges
<1>3. Simple(<<size + 1>>)
  BY <1>1 DEF SuccLists
<1>4. ASSUME NEW b \in size + 1 .. size + k
      PROVE  Simple([i \in DOMAIN body[b - size] |-> size + body[b - size][i]])
  <2> DEFINE s == body[b - size]
             t == [i \in DOMAIN s |-> size + s[i]]
  <2>1. b - size \in 1 .. k
    OBVIOUS
  <2>2. /\ s \in SuccLists /\ SuccSet(body, b - size) \subseteq 1 .. k + 1
        /\ \A i, j \in DOMAIN s : i < j => s[i] # s[j]
    BY <2>1 DEF Bodies
  <2>3. DOMAIN s \subseteq Int /\ \A i \in DOMAIN s : s[i] \in 1 .. k + 1
    BY <2>2 DEF SuccSet, SuccLists
  <2> HIDE DEF s
  <2>4. \A i \in DOMAIN s : size + s[i] \in Block
    BY <1>1, <2>3
  <2>5. t \in SuccLists
    BY <2>2, <2>4, Moved
  <2>6. \A i, j \in DOMAIN s : i < j \/ j < i \/ i = j
    BY <2>3
  <2>7. \A i, j \in DOMAIN s : s[i] = s[j] => i = j
    BY <2>2, <2>6
  <2>8. \A i, j \in DOMAIN s : t[i] = t[j] => s[i] = s[j]
    BY <2>3
  <2>9. DOMAIN t = DOMAIN s
    OBVIOUS
  <2> QED
    BY <2>5, <2>7, <2>8, <2>9 DEF s
<1> HIDE DEF Simple
<1>5. \A b \in Block : Simple(g[b])
  BY <1>1, <1>2, <1>3, <1>4 DEF Split
<1>6. g \in [Block -> SuccLists]
  <2>1. \A b \in Block : g[b] \in SuccLists
    BY <1>5 DEF Simple
  <2> QED
    BY <2>1 DEF Split
<1> QED
  BY <1>5, <1>6 DEF Cfgs, NoParallelEdges, Simple

\* What inlining a call does to the graph.
LEMMA Inlined ==
  ASSUME PassInv, InlineCall
  PROVE  /\ succ' \in Cfgs /\ size' \in 1 .. N /\ size + 2 <= size' /\ sites' \subseteq sites
         /\ UNCHANGED <<present, dominators, rpo, rpoValid, epoch, initReach, bb, pc>>
         /\ UNCHANGED <<first, ordered, reached, analysed>>
<1>1. PICK c \in sites : /\ sites' = sites \ {c}
                         /\ \E k \in 1 .. N - 1 - size - 2 * Cardinality(sites \ {c}) :
                              \E body \in Bodies(k) :
                                succ' = Split(c, k, body) /\ size' = size + k + 1
  BY DEF InlineCall
<1>2. /\ sites \subseteq 1 .. size /\ size \in Nat \ {0} /\ N \in Nat /\ succ \in Cfgs
      /\ c \in 1 .. size
  BY <1>1, SizeAssumption DEF PassInv, Managed, IInv, Types
<1>3. Cardinality(sites \ {c}) \in Nat
  <2>1. sites \ {c} \subseteq 1 .. size /\ IsFiniteSet(1 .. size)
    BY <1>2, FS_Interval
  <2> QED
    BY <2>1, FS_Subset, FS_CardinalityType
<1>4. PICK k \in 1 .. N - 1 - size - 2 * Cardinality(sites \ {c}) : \E body \in Bodies(k) :
        succ' = Split(c, k, body) /\ size' = size + k + 1
  BY <1>1
<1>5. k \in Nat \ {0} /\ size + k + 1 <= N
  BY <1>2, <1>3, <1>4
<1>6. succ' \in Cfgs
  BY <1>2, <1>4, <1>5, SplitCfg
<1> QED
  BY <1>1, <1>2, <1>4, <1>5, <1>6 DEF InlineCall

LEMMA InlineCallInv == PassInv /\ InlineCall => PassInv'
<1> SUFFICES ASSUME PassInv, InlineCall PROVE PassInv'
  OBVIOUS
<1>1. Doing("calls") /\ calls # <<>> /\ UNCHANGED <<calls, valid, dead>>
  BY DEF InlineCall, Doing, Idle
<1>2. ~dead /\ pc \notin {"unbind", "rerun", "bind"}
  BY <1>1 DEF Doing, PassInv, Managed, Sweeping, Holes
<1>3. /\ succ' \in Cfgs /\ size' \in 1 .. N /\ size + 2 <= size' /\ sites' \subseteq sites
      /\ UNCHANGED <<present, dominators, rpo, rpoValid, epoch, initReach, bb, pc>>
      /\ UNCHANGED <<first, ordered, reached, analysed>>
  BY Inlined
<1>4. size \in 1 .. N /\ bb \in 2 .. size + 1 /\ N \in Nat /\ sites \subseteq 1 .. size
  BY SizeAssumption DEF PassInv, Managed, IInv, Types
<1>5. Types'
  <2>1. bb' = bb /\ size' \in Int /\ size + 2 <= size'
    BY <1>3, <1>4
  <2>2. \A x, y, z \in Int : x \in 2 .. y + 1 /\ y + 2 <= z => x \in 2 .. z + 1
    OBVIOUS
  <2>3. bb \in Int /\ size \in Int
    BY <1>4
  <2>4. bb' \in 2 .. size' + 1
    BY <1>4, <2>1, <2>2, <2>3
  <2> QED
    BY <1>3, <2>4 DEF PassInv, IInv, Types
<1>6. Turns'
  BY <1>2, <1>3 DEF PassInv, IInv, Turns
<1>7. Lists'
  <2>1. \A b \in Block : Listed(b)' = Listed(b)
    BY <1>3 DEF Listed, Opened
  <2> QED
    BY <1>3, <2>1 DEF PassInv, IInv, Lists
<1>8. Order'
  <2>1. size' > 1 /\ ~(bb' > size')
    BY <1>3, <1>4
  <2> QED
    BY <1>2, <1>3, <2>1 DEF PassInv, IInv, Order
<1>9. sites' \subseteq 1 .. size'
  BY <1>3, <1>4
<1> QED
  BY <1>1, <1>2, <1>3, <1>5, <1>6, <1>7, <1>8, <1>9 DEF PassInv, IInv, Managed, Holes

LEMMA LoopsInv == PassInv /\ Loops => PassInv'
<1> SUFFICES ASSUME PassInv, Loops PROVE PassInv'
  OBVIOUS
<1>1. /\ Doing("loops") /\ calls # <<>> /\ Current.todo # <<>> /\ dead' = dead /\ UNCHANGED vars
      /\ Head(Current.todo) = "loops" /\ sites' = sites
  BY DEF Loops, Doing, Idle
<1>2. ~dead /\ pc \notin {"unbind", "rerun", "bind"}
  BY <1>1 DEF PassInv, Managed, Sweeping, Holes
<1>3. PICK n \in 0 .. Cardinality(Headers) :
        calls' = Append(Popped, [Current EXCEPT !.todo =
                   [k \in 1 .. 2 * n |-> IF k % 2 = 1 THEN "new" ELSE "erase"] \o Tail(@)])
  BY DEF Loops
<1> DEFINE s == [k \in 1 .. 2 * n |-> IF k % 2 = 1 THEN "new" ELSE "erase"]
<1>4. 2 * n \in Nat
  BY <1>3
<1>5. s \in Seq(Op) /\ Len(s) = 2 * n /\ \A i \in 1 .. 2 * n : s[i] # "rewrite"
  <2>1. \A i \in 1 .. 2 * n : s[i] \in {"new", "erase"}
    OBVIOUS
  <2>2. {"new", "erase"} \subseteq Op \ {"rewrite"}
    BY DEF Op
  <2> QED
    BY <1>4, <2>1, <2>2
<1>6. [Current EXCEPT !.todo = s \o Tail(@)] \in Call
  BY <1>1, <1>4, <1>5, Step, LongerCall DEF PassInv
<1>7. calls' \in Seq(Call)
  BY <1>1, <1>3, <1>6, Step, Push DEF PassInv
<1> QED
  BY <1>1, <1>2, <1>7, Unmoved DEF PassInv, Managed, Holes, vars

LEMMA UnbindBlocksInv == PassInv /\ UnbindBlocks => PassInv'
<1> SUFFICES ASSUME PassInv, UnbindBlocks PROVE PassInv'
  OBVIOUS
<1>1. /\ calls # <<>> /\ Current.todo # <<>> /\ Head(Current.todo) = "unbinding"
      /\ Start \/ Unbind \/ Rerun \/ Bind
      /\ UNCHANGED <<valid, calls, dead, sites>>
  BY DEF UnbindBlocks, Doing, Idle, passVars
<1>2. IInv' /\ size' = size
  BY <1>1, NextInv DEF Next, PassInv, Start, Unbind, Rerun, Bind
<1>3. Holes'
  BY <1>1 DEF Holes, Current
<1>4. dead' => Sweeping'
  BY <1>1 DEF PassInv, Managed, Sweeping, Current
<1> QED
  BY <1>1, <1>2, <1>3, <1>4 DEF PassInv, Managed

LEMMA PassNextInv == PassInv /\ [PassNext]_<<vars, passVars>> => PassInv'
<1> SUFFICES ASSUME PassInv, [PassNext]_<<vars, passVars>> PROVE PassInv'
  OBVIOUS
<1>1. CASE \E p \in PassList : Request(p)
  BY <1>1, RequestInv
<1>2. CASE Work
  BY <1>2, RunPassInv, ReturnInv, NewMarkerInv, LoopsInv, RewriteInv, InvalidateInv, SweepInv,
     UnbindBlocksInv, InlineCallInv DEF Work
<1>3. CASE UNCHANGED <<vars, passVars>>
  <2>1. UNCHANGED vars /\ UNCHANGED <<valid, calls, dead, sites>>
    BY <1>3 DEF passVars
  <2>2. Managed'
    BY <2>1 DEF PassInv, Managed, Holes, Sweeping, Current, vars
  <2> QED
    BY <2>1, <2>2, Unmoved DEF PassInv
<1> QED
  BY <1>1, <1>2, <1>3 DEF PassNext, Rest

LEMMA PassInductive == PassSpec => []PassInv
<1> QED
  BY PassInitInv, PassNextInv, PTL DEF PassSpec

-----------------------------------------------------------------------------
(***************************************************************************)
(* Whatever passes run, and though Inlining changes the graph, DomTreeSlow *)
(* leaves the dominators of the graph that it found, worked out for the    *)
(* blocks in the order that it was given, and they stay as they are.       *)
(***************************************************************************)
THEOREM DominatorsStay == PassSpec => []DominatorsExact
<1>1. PassInv => DominatorsExact
  BY InvDominatorsExact DEF PassInv
<1> QED
  BY <1>1, PassInductive, PTL

(***************************************************************************)
(* Nothing that a pass has rewritten stays in a block when the passes have *)
(* returned: ConstFolding and Peephole reset the bit of DCE before they    *)
(* run it, so its being valid already never hides the need for a sweep.    *)
(***************************************************************************)
THEOREM AllSwept == PassSpec => []NothingUnswept
<1>1. PassInv => NothingUnswept
  BY DEF PassInv, Managed, Sweeping, NothingUnswept, Idle
<1> QED
  BY <1>1, PassInductive, PTL

-----------------------------------------------------------------------------
(***************************************************************************)
(* What the running passes still cost, and what they hold.                 *)
(***************************************************************************)
\* A pass only runs passes of lower rank.
Rank(p) == CASE p = "RegAlloc"         -> 4
             [] p = "LivenessAnalysis" -> 3
             [] p = "LinearOrder"      -> 2
             [] p \in {"LoopAnalyzer", "CheckElimination"} \cup Rewriting -> 1
             [] OTHER -> 0

\* t is the end of s.
EndOf(t, s) == Len(t) <= Len(s) /\ \A i \in 1 .. Len(t) : t[i] = s[Len(s) - Len(t) + i]

\* What is left of the loops that are searched.
Searches(t) == \A i \in 1 .. Len(t) : t[i] = IF (Len(t) - i) % 2 = 1 THEN "new" ELSE "erase"

\* What is left of the script of a pass is its end.
Shaped(p, t) == \/ EndOf(t, Script(p))
                \/ p = "LoopAnalyzer" /\ Searches(t)

\* The markers that a call may still take, by the length of what is left of
\* its script; the reset of the bit of DCE counts as the sweep it makes
\* necessary again.
Owed(p, t) ==
  LET n == Len(t)
  IN  CASE p = "DomTreeFast"  -> IF n = 2 THEN 1 ELSE 0
        [] p = "DCE"          -> IF n = 3 THEN 1 ELSE 0
        [] p = "LinearOrder"  -> IF n >= 1 THEN 1 ELSE 0
        [] p \in Rewriting    -> IF n >= 2 THEN 1 ELSE 0
        [] p = "LoopAnalyzer" -> IF Searches(t) THEN n \div 2
                                 ELSE IF n >= 6 THEN 2 ELSE IF n = 5 THEN 1 ELSE 0
        [] OTHER -> 0

\* The slots that a call holds.
Held(p, t) ==
  LET n == Len(t)
  IN  CASE p = "DomTreeFast"  -> IF n = 1 THEN 1 ELSE 0
        [] p = "DCE"          -> IF n \in {1, 2} THEN 1 ELSE 0
        [] p = "LinearOrder"  -> IF n = 0 THEN 1 ELSE 0
        [] p = "LoopAnalyzer" -> IF Searches(t) THEN n % 2
                                 ELSE IF n = 4 THEN 2 ELSE IF n \in {3, 5} THEN 1 ELSE 0
        [] OTHER -> 0

\* The running passes c and the valid passes v: the scripts of the calls,
\* their ranks, and that only the innermost one holds markers.
Nested(c, v) ==
  /\ \A k \in 1 .. Len(c) : /\ Shaped(c[k].pass, c[k].todo)
                            /\ c[k].pass # "RPO" /\ c[k].pass \notin v
  /\ \A j, k \in 1 .. Len(c) : j < k => Rank(c[k].pass) < Rank(c[j].pass)
  /\ \A k \in 1 .. Len(c) - 1 : Held(c[k].pass, c[k].todo) = 0
  /\ v \subseteq PassList \ {"RPO"}

\* The slots in use: the one that LinearOrder never returns, and what the
\* innermost call holds.
Slots(c, v) == (IF "LinearOrder" \in v THEN 1 ELSE 0)
               + (IF c = <<>> THEN 0 ELSE Held(Last(c).pass, Last(c).todo))

\* The orders that DomTreeSlow has made necessary so far.
SlowSpent == CASE pc = "start"  -> 0
               [] pc = "unbind" -> bb - 1 - (IF rpoValid THEN 1 ELSE 0)
               [] OTHER         -> bb - 1

On(c, p)     == \E k \in 1 .. Len(c) : c[k].pass = p
CallIn(c, p) == c[CHOOSE k \in 1 .. Len(c) : c[k].pass = p]

\* The part of its cost that a pass has spent already.
Spent(c, v, p) == IF p \in v THEN Cost(p)
                  ELSE IF On(c, p) THEN Cost(p) - Owed(p, CallIn(c, p).todo)
                  ELSE 0

\* The sum over all passes.
Total(f) == f["RPO"] + f["DomTreeSlow"] + f["DomTreeFast"] + f["LoopAnalyzer"] + f["DCE"]
            + f["Inlining"] + f["CheckElimination"] + f["LinearOrder"] + f["LivenessAnalysis"] + f["RegAlloc"]
            + f["ConstFolding"] + f["Peephole"]

\* What the passes have spent, and what those that have begun may spend.
Charged(c, v)  == [p \in PassList |-> IF p = "DomTreeSlow" THEN SlowSpent ELSE Spent(c, v, p)]
Begins(c, v, p) == p \in v \/ On(c, p)
BudgetOf(c, v) == [p \in PassList |-> IF Begins(c, v, p) THEN Cost(p) ELSE 0]

\* The epochs used so far, and one more if there is no order.
Used == epoch + (IF rpoValid THEN 0 ELSE 1)

\* What no pass has done that has not begun.
Started ==
  /\ pc \in {"start", "abort"} \/ Begins(calls, valid, "DomTreeSlow")
  /\ searched = 0 \/ Begins(calls, valid, "LoopAnalyzer")
  /\ ~Behind \/ Begins(calls, valid, "Inlining")

MarkersInv ==
  /\ epoch \in Nat /\ first \in Nat /\ searched \in Nat /\ pc # "undefined"
  /\ Nested(calls, valid) /\ Started
  /\ pc # "abort" => slots = Slots(calls, valid) /\ Used <= first + 1 + Total(Charged(calls, valid))
  /\ pc = "abort" => MAX_EPOCH <= first + 1 + Total(BudgetOf(calls, valid))

-----------------------------------------------------------------------------
LEMMA EndOfTail ==
  ASSUME NEW t \in Seq(Op), t # <<>>, NEW s \in Seq(Op), EndOf(t, s)
  PROVE  /\ EndOf(Tail(t), s) /\ Len(t) \in 1 .. Len(s)
         /\ t[1] = s[Len(s) - Len(t) + 1] /\ t[Len(t)] = s[Len(s)]
<1> DEFINE n == Len(t)
           L == Len(s)
<1>1. n \in Nat \ {0} /\ L \in Nat /\ n <= L /\ \A i \in 1 .. n : t[i] = s[L - n + i]
  BY DEF EndOf
<1>2. t[1] = s[L - n + 1] /\ t[n] = s[L]
  <2>1. 1 \in 1 .. n /\ n \in 1 .. n /\ L - n + n = L
    BY <1>1
  <2> QED
    BY <1>1, <2>1
<1>3. Len(Tail(t)) = n - 1 /\ \A i \in 1 .. n - 1 : Tail(t)[i] = t[i + 1]
  OBVIOUS
<1>4. ASSUME NEW i \in 1 .. n - 1 PROVE Tail(t)[i] = s[L - (n - 1) + i]
  <2> HIDE DEF n, L
  <2>1. i + 1 \in 1 .. n /\ L - n + (i + 1) = L - (n - 1) + i
    BY <1>1
  <2> QED
    BY <1>1, <1>3, <2>1
<1>5. EndOf(Tail(t), s)
  BY <1>1, <1>3, <1>4 DEF EndOf
<1> QED
  BY <1>1, <1>2, <1>5

LEMMA SearchesTail ==
  ASSUME NEW t \in Seq(Op), t # <<>>, Searches(t)
  PROVE  /\ Searches(Tail(t))
         /\ t[1] = IF Len(t) % 2 = 0 THEN "new" ELSE "erase"
<1> DEFINE n == Len(t)
<1>1. n \in Nat \ {0} /\ \A i \in 1 .. n : t[i] = IF (n - i) % 2 = 1 THEN "new" ELSE "erase"
  BY DEF Searches
<1>2. Len(Tail(t)) = n - 1 /\ \A i \in 1 .. n - 1 : Tail(t)[i] = t[i + 1]
  OBVIOUS
<1> HIDE DEF n
<1>3. ASSUME NEW i \in 1 .. n - 1
      PROVE  Tail(t)[i] = IF (n - 1 - i) % 2 = 1 THEN "new" ELSE "erase"
  <2>1. i + 1 \in 1 .. n /\ n - (i + 1) = n - 1 - i
    BY <1>1
  <2> QED
    BY <1>1, <1>2, <2>1
<1>4. Searches(Tail(t))
  BY <1>2, <1>3 DEF Searches
<1>5. (n - 1) % 2 = 1 <=> n % 2 = 0
  BY <1>1
<1>6. 1 \in 1 .. n
  BY <1>1
<1> QED
  BY <1>1, <1>4, <1>5, <1>6 DEF n

\* What one step of a script does to what its call owes and holds.
Booked(p, t, u, op) ==
  /\ op = "new" => Owed(p, u) = Owed(p, t) - 1 /\ Held(p, u) = Held(p, t) + 1 /\ Held(p, t) <= 1
  /\ op = "erase" => Owed(p, u) = Owed(p, t) /\ Held(p, u) = Held(p, t) - 1
  /\ op = "invalidate" => /\ Owed(p, u) = Owed(p, t) - 1 /\ Held(p, u) = Held(p, t)
                          /\ p \in Rewriting
  /\ op = "loops" => p = "LoopAnalyzer" /\ Len(t) = 1
  /\ op = "unbinding" => p = "DomTreeSlow"
  /\ op \in PassList => /\ Owed(p, u) = Owed(p, t) /\ Held(p, u) = 0 /\ Held(p, t) = 0
                        /\ Rank(op) < Rank(p)
  /\ op = "calls" => p = "Inlining"
  /\ op \in {"sweep", "rewrite", "unbinding", "calls"} =>
       Owed(p, u) = Owed(p, t) /\ Held(p, u) = Held(p, t)

LEMMA HeaderCountType == Cardinality(Headers) \in Nat
<1>1. Headers \subseteq 1 .. N /\ IsFiniteSet(1 .. N)
  BY SizeAssumption, FS_Interval DEF Headers, Block
<1>2. IsFiniteSet(Headers)
  BY <1>1, FS_Subset
<1> QED
  BY <1>2, FS_CardinalityType

LEMMA ScriptType == ASSUME NEW p \in PassList \ {"RPO"} PROVE Script(p) \in Seq(Op)
BY NewCall DEF Called, Call

LEMMA LoopStep ==
  ASSUME NEW t \in Seq(Op), t # <<>>, Shaped("LoopAnalyzer", t)
  PROVE  Shaped("LoopAnalyzer", Tail(t)) /\ Booked("LoopAnalyzer", t, Tail(t), Head(t))
<1> DEFINE s == <<"DomTreeFast", "new", "new", "erase", "erase", "RPO", "loops">>
           u == Tail(t)
           op == Head(t)
           p == "LoopAnalyzer"
<1>1. PICK n \in Nat \ {0} : n = Len(t)
  OBVIOUS
<1>2. Script(p) = s /\ s \in Seq(Op)
  <2>1. Script(p) = s
    BY DEF Script, Rewriting
  <2> QED
    BY <2>1, ScriptType DEF PassList
<1>3. Len(s) = 7 /\ s[1] = "DomTreeFast" /\ s[2] = "new" /\ s[3] = "new" /\ s[4] = "erase"
      /\ s[5] = "erase" /\ s[6] = "RPO" /\ s[7] = "loops"
  OBVIOUS
<1>4. Len(u) = n - 1 /\ op = t[1] /\ \A i \in 1 .. n - 1 : u[i] = t[i + 1]
  BY <1>1
<1>5. /\ op = "new" => op \notin PassList
      /\ op = "erase" => op \notin PassList
      /\ op = "loops" => op \notin PassList
  BY DEF PassList, Rewriting
<1> HIDE DEF s
<1>6. CASE EndOf(t, s)
  <2>1. EndOf(u, s) /\ n \in 1 .. 7 /\ op = s[8 - n] /\ t[n] = "loops"
    <3>1. /\ EndOf(u, s) /\ n \in 1 .. Len(s) /\ op = s[Len(s) - n + 1] /\ t[n] = s[Len(s)]
      BY <1>1, <1>2, <1>4, <1>6, EndOfTail
    <3>2. 7 - n + 1 = 8 - n
      BY <1>1
    <3> HIDE DEF u, op
    <3> QED
      BY <3>1, <3>2, <1>3
  <2>2. Shaped(p, u)
    BY <1>2, <2>1 DEF Shaped
  <2>3. ~Searches(t)
    BY <1>1, <2>1 DEF Searches
  <2>4. n # 1 => ~Searches(u)
    <3> SUFFICES ASSUME n # 1 PROVE ~Searches(u)
      OBVIOUS
    <3>1. n - 1 \in 1 .. n - 1 /\ n - 1 + 1 = n
      BY <1>1
    <3>2. u[n - 1] = "loops"
      BY <1>4, <2>1, <3>1
    <3> HIDE DEF u
    <3> QED
      BY <3>1, <3>2, <1>4 DEF Searches
  <2> HIDE DEF u, op
  <2>5. Owed(p, t) = IF n >= 6 THEN 2 ELSE IF n = 5 THEN 1 ELSE 0
    BY <1>1, <2>3 DEF Owed, Rewriting
  <2>6. n # 1 => Owed(p, u) = IF n - 1 >= 6 THEN 2 ELSE IF n - 1 = 5 THEN 1 ELSE 0
    BY <1>4, <2>4 DEF Owed, Rewriting
  <2>7. Held(p, t) = IF n = 4 THEN 2 ELSE IF n \in {3, 5} THEN 1 ELSE 0
    BY <1>1, <2>3 DEF Held
  <2>8. n # 1 => Held(p, u) = IF n - 1 = 4 THEN 2 ELSE IF n - 1 \in {3, 5} THEN 1 ELSE 0
    BY <1>4, <2>4 DEF Held
  <2>9. CASE n = 1
    <3>1. op = "loops"
      BY <1>3, <2>1, <2>9
    <3>2. Booked(p, t, u, op)
      BY <1>1, <1>5, <2>9, <3>1 DEF Booked
    <3> QED
      BY <2>2, <3>2 DEF u, op
  <2>10. CASE n \in {2, 7}
    <3>1. op \in {"RPO", "DomTreeFast"} /\ Rank(op) = 0 /\ Rank(p) = 1
      <4>1. op \in {"RPO", "DomTreeFast"}
        BY <1>3, <2>1, <2>10
      <4> QED
        BY <4>1 DEF Rank, Rewriting
    <3>2. Owed(p, u) = Owed(p, t) /\ Held(p, u) = 0 /\ Held(p, t) = 0
      BY <2>5, <2>6, <2>7, <2>8, <2>10
    <3>3. Booked(p, t, u, op)
      BY <3>1, <3>2 DEF Booked
    <3> QED
      BY <2>2, <3>3 DEF u, op
  <2>11. CASE n \in {5, 6}
    <3>1. op = "new"
      BY <1>3, <2>1, <2>11
    <3>2. Owed(p, u) = Owed(p, t) - 1 /\ Held(p, u) = Held(p, t) + 1 /\ Held(p, t) <= 1
      BY <2>5, <2>6, <2>7, <2>8, <2>11
    <3>3. Booked(p, t, u, op)
      BY <1>5, <3>1, <3>2 DEF Booked
    <3> QED
      BY <2>2, <3>3 DEF u, op
  <2>12. CASE n \in {3, 4}
    <3>1. op = "erase"
      BY <1>3, <2>1, <2>12
    <3>2. Owed(p, u) = Owed(p, t) /\ Held(p, u) = Held(p, t) - 1
      BY <2>5, <2>6, <2>7, <2>8, <2>12
    <3>3. Booked(p, t, u, op)
      BY <1>5, <3>1, <3>2 DEF Booked
    <3> QED
      BY <2>2, <3>3 DEF u, op
  <2> QED
    BY <2>1, <2>9, <2>10, <2>11, <2>12
<1>7. CASE Searches(t)
  <2>1. Searches(u) /\ op = IF n % 2 = 0 THEN "new" ELSE "erase"
    BY <1>1, <1>4, <1>7, SearchesTail
  <2> HIDE DEF u, op
  <2>2. Owed(p, t) = n \div 2 /\ Owed(p, u) = (n - 1) \div 2
    BY <1>1, <1>4, <1>7, <2>1 DEF Owed, Rewriting
  <2>3. Held(p, t) = n % 2 /\ Held(p, u) = (n - 1) % 2
    BY <1>1, <1>4, <1>7, <2>1 DEF Held
  <2>4. Shaped(p, u)
    BY <2>1 DEF Shaped
  <2>5. CASE n % 2 = 0
    <3>1. (n - 1) \div 2 = (n \div 2) - 1 /\ (n - 1) % 2 = 1
      BY <1>1, <2>5
    <3>2. Booked(p, t, u, op)
      BY <1>5, <2>1, <2>2, <2>3, <2>5, <3>1 DEF Booked
    <3> QED
      BY <2>4, <3>2 DEF u, op
  <2>6. CASE n % 2 # 0
    <3>1. (n - 1) \div 2 = n \div 2 /\ (n - 1) % 2 = (n % 2) - 1
      BY <1>1, <2>6
    <3>2. Booked(p, t, u, op)
      BY <1>5, <2>1, <2>2, <2>3, <2>6, <3>1 DEF Booked
    <3> QED
      BY <2>4, <3>2 DEF u, op
  <2> QED
    BY <2>5, <2>6
<1> QED
  BY <1>2, <1>6, <1>7 DEF Shaped
LEMMA ShortTail ==
  ASSUME NEW p \in PassList \ {"RPO", "LoopAnalyzer"}, NEW t \in Seq(Op), t # <<>>, Shaped(p, t)
  PROVE  /\ Shaped(p, Tail(t)) /\ Len(t) \in 1 .. Len(Script(p)) /\ Len(Tail(t)) = Len(t) - 1
         /\ Head(t) = Script(p)[Len(Script(p)) - Len(t) + 1]
<1>1. Script(p) \in Seq(Op) /\ EndOf(t, Script(p))
  BY ScriptType DEF Shaped
<1>2. EndOf(Tail(t), Script(p))
  BY <1>1, EndOfTail
<1> QED
  BY <1>1, <1>2, EndOfTail DEF Shaped

LEMMA Booking ==
  ASSUME NEW p \in PassList \ {"RPO"}, NEW t \in Seq(Op), t # <<>>, Shaped(p, t)
  PROVE  Shaped(p, Tail(t)) /\ Booked(p, t, Tail(t), Head(t))
<1>1. CASE p = "LoopAnalyzer"
  BY <1>1, LoopStep
<1>2. CASE p # "LoopAnalyzer"
  <2> DEFINE u == Tail(t)
             op == Head(t)
             s == Script(p)
  <2>1. Shaped(p, u) /\ Len(t) \in 1 .. Len(s) /\ Len(u) = Len(t) - 1 /\ op = s[Len(s) - Len(t) + 1]
    BY <1>2, ShortTail
  <2> HIDE DEF u, op, s
  <2>2. PICK n : n = Len(t)
    OBVIOUS
  <2>3. CASE p = "DomTreeFast"
    <3>1. Len(s) = 2 /\ s[1] = "new" /\ s[2] = "erase"
      BY <2>3 DEF s, Script, Rewriting
    <3>2. n \in {1, 2} /\ op = s[3 - n]
      BY <2>1, <2>2, <3>1
    <3>3. /\ Owed(p, t) = (IF n = 2 THEN 1 ELSE 0) /\ Owed(p, u) = 0
          /\ Held(p, t) = (IF n = 1 THEN 1 ELSE 0) /\ Held(p, u) = IF n = 2 THEN 1 ELSE 0
      BY <2>1, <2>2, <2>3, <3>2 DEF Owed, Held
    <3>4. Booked(p, t, u, op)
      BY <3>1, <3>2, <3>3 DEF Booked, PassList, Rewriting
    <3> QED
      BY <2>1, <3>4 DEF u, op
  <2>4. CASE p = "DCE"
    <3>1. Len(s) = 3 /\ s[1] = "new" /\ s[2] = "sweep" /\ s[3] = "erase"
      BY <2>4 DEF s, Script, Rewriting
    <3>2. n \in {1, 2, 3} /\ op = s[4 - n]
      BY <2>1, <2>2, <3>1
    <3>3. /\ Owed(p, t) = (IF n = 3 THEN 1 ELSE 0) /\ Owed(p, u) = 0
          /\ Held(p, t) = (IF n = 3 THEN 0 ELSE 1) /\ Held(p, u) = IF n = 1 THEN 0 ELSE 1
      <4>1. Owed(p, t) = (IF n = 3 THEN 1 ELSE 0) /\ Owed(p, u) = 0
        BY <2>1, <2>2, <2>4, <3>2 DEF Owed, Rewriting
      <4>2. Held(p, t) = (IF n = 3 THEN 0 ELSE 1) /\ Held(p, u) = IF n = 1 THEN 0 ELSE 1
        <5>1. \A x : Held(p, x) = IF Len(x) \in {1, 2} THEN 1 ELSE 0
          BY <2>4 DEF Held
        <5>2. Len(u) = n - 1 /\ Len(t) = n
          BY <2>1, <2>2
        <5>3. n \in {1, 2} <=> n # 3
          BY <3>2
        <5>4. n - 1 \in {1, 2} <=> n # 1
          BY <3>2
        <5> QED
          BY <5>1, <5>2, <5>3, <5>4
      <4> QED
        BY <4>1, <4>2
    <3>4. Booked(p, t, u, op)
      BY <3>1, <3>2, <3>3 DEF Booked, PassList, Rewriting
    <3> QED
      BY <2>1, <3>4 DEF u, op
  <2>5. CASE p \in Rewriting
    <3>1. Len(s) = 4 /\ s[1] = "RPO" /\ s[2] = "rewrite" /\ s[3] = "invalidate" /\ s[4] = "DCE"
      BY <2>5 DEF s, Script, RewriteScript, Rewriting
    <3>2. n \in {1, 2, 3, 4} /\ op = s[5 - n]
      BY <2>1, <2>2, <3>1
    <3>3. Rank(p) = 1 /\ Rank("RPO") = 0 /\ Rank("DCE") = 0
      BY <2>5 DEF Rank, Rewriting
    <3>4. Held(p, t) = 0 /\ Held(p, u) = 0
      BY <2>5 DEF Held, Rewriting
    <3>5. Owed(p, t) = (IF n >= 2 THEN 1 ELSE 0) /\ Owed(p, u) = IF n - 1 >= 2 THEN 1 ELSE 0
      BY <2>1, <2>2, <2>5 DEF Owed, Rewriting
    <3>6. Booked(p, t, u, op)
      BY <2>5, <3>1, <3>2, <3>3, <3>4, <3>5 DEF Booked, Rewriting, PassList
    <3> QED
      BY <2>1, <3>6 DEF u, op
  <2>6. CASE p = "LinearOrder"
    <3>1. Len(s) = 3 /\ s[1] = "RPO" /\ s[2] = "LoopAnalyzer" /\ s[3] = "new"
      BY <2>6 DEF s, Script, Rewriting
    <3>2. n \in {1, 2, 3} /\ op = s[4 - n]
      BY <2>1, <2>2, <3>1
    <3>3. Booked(p, t, u, op)
      BY <2>1, <2>2, <2>6, <3>1, <3>2 DEF Booked, Owed, Held, Rank, Rewriting, PassList
    <3> QED
      BY <2>1, <3>3 DEF u, op
  <2>7. CASE p \in {"DomTreeSlow", "Inlining", "CheckElimination", "LivenessAnalysis", "RegAlloc"}
    <3>1. Len(s) = 1 /\ s[1] = CASE p = "DomTreeSlow"      -> "unbinding"
                                 [] p = "Inlining"         -> "calls"
                                 [] p = "CheckElimination" -> "DomTreeFast"
                                 [] p = "LivenessAnalysis" -> "LinearOrder"
                                 [] p = "RegAlloc"         -> "LivenessAnalysis"
      BY <2>7 DEF s, Script, Rewriting
    <3>2. n = 1 /\ op = s[1]
      <4>1. n = 1 /\ Len(s) - n + 1 = 1
        BY <2>1, <2>2, <3>1
      <4> QED
        BY <2>1, <2>2, <4>1
    <3>3. Booked(p, t, u, op)
      BY <2>7, <3>1, <3>2 DEF Booked, Owed, Held, Rank, Rewriting, PassList
    <3> QED
      BY <2>1, <3>3 DEF u, op
  <2> QED
    BY <1>2, <2>3, <2>4, <2>5, <2>6, <2>7 DEF PassList
<1> QED
  BY <1>1, <1>2

\* A call that begins.
LEMMA Opening ==
  ASSUME NEW p \in PassList \ {"RPO"}
  PROVE  /\ Shaped(p, Script(p)) /\ Held(p, Script(p)) = 0
         /\ p # "DomTreeSlow" /\ (p = "LoopAnalyzer" => searched = 0) => Owed(p, Script(p)) = Cost(p)
<1> DEFINE s == Script(p)
<1>1. s \in Seq(Op)
  BY ScriptType
<1>2. EndOf(s, s)
  <2>1. Len(s) \in Nat
    BY <1>1
  <2> HIDE DEF s
  <2>2. PICK L \in Nat : L = Len(s)
    BY <2>1
  <2>3. \A i \in 1 .. L : L - L + i = i
    OBVIOUS
  <2> QED
    BY <2>2, <2>3 DEF EndOf
<1>3. Shaped(p, s)
  BY <1>2 DEF Shaped
<1>4. CASE p = "LoopAnalyzer"
  <2>1. Len(s) = 7 /\ s[7] = "loops"
    BY <1>4 DEF Script, Rewriting
  <2>2. ~Searches(s)
    <3> HIDE DEF s
    <3> QED
      BY <2>1 DEF Searches
  <2>3. Held(p, s) = 0 /\ Owed(p, s) = 2
    <3> HIDE DEF s
    <3> QED
      BY <1>4, <2>1, <2>2 DEF Held, Owed, Rewriting
  <2> QED
    BY <1>3, <1>4, <2>3 DEF Cost
<1>5. CASE p \in Rewriting
  <2>1. Len(s) = 4
    BY <1>5 DEF Script, RewriteScript, Rewriting
  <2> HIDE DEF s
  <2>2. Held(p, s) = 0 /\ Owed(p, s) = 1 /\ Cost(p) = 1
    BY <1>5, <2>1 DEF Held, Owed, Cost, Rewriting
  <2> QED
    BY <1>3, <2>2 DEF s
<1>6. CASE p \notin Rewriting \cup {"LoopAnalyzer"}
  <2>1. Len(s) = CASE p = "DomTreeFast" -> 2 [] p \in {"DCE", "LinearOrder"} -> 3 [] OTHER -> 1
    BY <1>6 DEF Script, Rewriting, PassList
  <2> HIDE DEF s
  <2>2. Held(p, s) = 0 /\ (p # "DomTreeSlow" => Owed(p, s) = Cost(p))
    BY <1>6, <2>1 DEF Held, Owed, Cost, Rewriting, PassList
  <2> QED
    BY <1>3, <2>2 DEF s
<1> QED
  BY <1>4, <1>5, <1>6

\* A call that has nothing left to do.
LEMMA Closing ==
  ASSUME NEW p \in PassList \ {"RPO"}, NEW t \in Seq(Op), t = <<>>
  PROVE  Owed(p, t) = 0 /\ Held(p, t) = IF p = "LinearOrder" THEN 1 ELSE 0
<1>1. Len(t) = 0
  OBVIOUS
<1>2. Searches(t)
  BY <1>1 DEF Searches
<1>3. 0 \div 2 = 0 /\ 0 % 2 = 0
  OBVIOUS
<1> QED
  BY <1>1, <1>2, <1>3 DEF Owed, Held, Rewriting

\* The loops that LoopAnalyzer finds.
LEMMA LoopsFound ==
  ASSUME NEW n \in Nat, NEW t \in Seq(Op),
         t = [k \in 1 .. 2 * n |-> IF k % 2 = 1 THEN "new" ELSE "erase"]
  PROVE  /\ Shaped("LoopAnalyzer", t) /\ Held("LoopAnalyzer", t) = 0
         /\ Owed("LoopAnalyzer", t) = n
<1>1. n \in Nat /\ 2 * n \in Nat
  OBVIOUS
<1>2. Len(t) = 2 * n
  BY <1>1
<1>3. \A i \in 1 .. 2 * n : (2 * n - i) % 2 = 1 <=> i % 2 = 1
  <2> TAKE i \in 1 .. 2 * n
  <2>1. i \in Nat
    BY <1>1
  <2> QED
    BY <1>1, <2>1
<1>4. Searches(t)
  BY <1>2, <1>3 DEF Searches
<1>5. (2 * n) \div 2 = n /\ (2 * n) % 2 = 0
  BY <1>1
<1>6. Held("LoopAnalyzer", t) = 0 /\ Owed("LoopAnalyzer", t) = n
  BY <1>2, <1>4, <1>5 DEF Held, Owed, Rewriting
<1> QED
  BY <1>1, <1>4, <1>6 DEF Shaped
-----------------------------------------------------------------------------
(***************************************************************************)
(* Changes of the stack of calls.                                          *)
(***************************************************************************)
\* The running call of c has t left to do in d.
Replaced(c, d, t) ==
  /\ c # <<>> /\ Len(d) = Len(c)
  /\ d[Len(c)].pass = c[Len(c)].pass /\ d[Len(c)].todo = t
  /\ \A k \in 1 .. Len(c) - 1 : d[k] = c[k]

LEMMA Popping ==
  ASSUME NEW c \in Seq(Call), c # <<>>
  PROVE  /\ Front(c) \in Seq(Call) /\ Len(Front(c)) = Len(c) - 1 /\ Len(c) \in Nat \ {0}
         /\ \A k \in 1 .. Len(c) - 1 : Front(c)[k] = c[k]
<1>1. Len(c) \in Nat \ {0}
  OBVIOUS
<1>2. 1 \in Int /\ Len(c) - 1 \in Nat /\ Len(c) - 1 <= Len(c)
  BY <1>1
<1>3. /\ Len(SubSeq(c, 1, Len(c) - 1)) = Len(c) - 1
      /\ \A k \in 1 .. Len(c) - 1 : SubSeq(c, 1, Len(c) - 1)[k] = c[k]
  <2> DEFINE d == SubSeq(c, 1, Len(c) - 1)
             n == Len(c)
  <2>1. /\ Len(d) = IF 1 <= n - 1 THEN n - 1 - 1 + 1 ELSE 0
        /\ \A k \in 1 .. n - 1 - 1 + 1 : d[k] = c[1 + k - 1]
    BY <1>2, SubSeqProperties
  <2> HIDE DEF d, n
  <2>2. n - 1 - 1 + 1 = n - 1 /\ n \in Nat \ {0}
    BY <1>1 DEF n
  <2>3. \A k \in 1 .. n - 1 : 1 + k - 1 = k
    BY <2>2
  <2>4. Len(d) = n - 1
    BY <2>1, <2>2
  <2> QED
    BY <2>1, <2>2, <2>3, <2>4 DEF d, n
<1> QED
  BY <1>1, <1>3, Pop DEF Front

LEMMA Replacing ==
  ASSUME NEW c \in Seq(Call), c # <<>>, NEW t,
         [Last(c) EXCEPT !.todo = t] \in Call
  PROVE  /\ Append(Front(c), [Last(c) EXCEPT !.todo = t]) \in Seq(Call)
         /\ Replaced(c, Append(Front(c), [Last(c) EXCEPT !.todo = t]), t)
<1> DEFINE e == [Last(c) EXCEPT !.todo = t]
           d == Append(Front(c), e)
<1>1. /\ Len(c) \in Nat \ {0} /\ Last(c) = c[Len(c)] /\ Last(c) \in Call
      /\ Front(c) \in Seq(Call) /\ Len(Front(c)) = Len(c) - 1
      /\ \A k \in 1 .. Len(c) - 1 : Front(c)[k] = c[k]
  BY Pop, Popping DEF Last
<1>2. e.pass = Last(c).pass /\ e.todo = t
  BY <1>1 DEF Call
<1> HIDE DEF e
<1>3. /\ d \in Seq(Call) /\ Len(d) = Len(c) /\ d[Len(c)] = e
      /\ \A k \in 1 .. Len(c) - 1 : d[k] = c[k]
  BY <1>1 DEF e
<1> QED
  BY <1>1, <1>2, <1>3 DEF Replaced, e

LEMMA Pushing ==
  ASSUME NEW c \in Seq(Call), NEW e \in Call
  PROVE  /\ Append(c, e) \in Seq(Call) /\ Len(Append(c, e)) = Len(c) + 1 /\ Len(c) \in Nat
         /\ Append(c, e)[Len(c) + 1] = e /\ \A k \in 1 .. Len(c) : Append(c, e)[k] = c[k]
OBVIOUS

\* Ranks tell the calls apart.
LEMMA OnlyCall ==
  ASSUME NEW c, NEW v, Nested(c, v), Len(c) \in Nat, NEW k \in 1 .. Len(c)
  PROVE  On(c, c[k].pass) /\ CallIn(c, c[k].pass) = c[k]
<1> DEFINE j == CHOOSE l \in 1 .. Len(c) : c[l].pass = c[k].pass
<1>1. j \in 1 .. Len(c) /\ c[j].pass = c[k].pass
  OBVIOUS
<1> HIDE DEF j
<1>2. \A l \in 1 .. Len(c) : Rank(c[l].pass) \in Nat
  BY DEF Rank
<1>3. ~(j < k) /\ ~(k < j)
  BY <1>1, <1>2 DEF Nested
<1>4. j = k
  BY <1>1, <1>3
<1> QED
  BY <1>1, <1>4 DEF On, CallIn, j

LEMMA RankType == \A p : Rank(p) \in Nat
BY DEF Rank

\* What a change of the running call means for the rest of the accounts.
LEMMA ReplacedNested ==
  ASSUME NEW c \in Seq(Call), NEW d \in Seq(Call), NEW v, NEW w, Nested(c, v), NEW t, Replaced(c, d, t),
         Shaped(c[Len(c)].pass, t), w \subseteq v
  PROVE  /\ Nested(d, w)
         /\ On(d, c[Len(c)].pass) /\ CallIn(d, c[Len(c)].pass) = d[Len(c)]
         /\ On(c, c[Len(c)].pass) /\ CallIn(c, c[Len(c)].pass) = c[Len(c)]
         /\ \A q : On(d, q) <=> On(c, q)
         /\ \A q : On(c, q) /\ q # c[Len(c)].pass => CallIn(d, q) = CallIn(c, q)
<1> DEFINE n == Len(c)
<1>1. n \in Nat \ {0} /\ Len(d) = n
  BY DEF Replaced
<1>2. /\ d[n].pass = c[n].pass /\ d[n].todo = t
      /\ \A k \in 1 .. n - 1 : d[k] = c[k]
  BY DEF Replaced
<1> HIDE DEF n
<1>3. \A k \in 1 .. n : d[k].pass = c[k].pass /\ (k # n => d[k] = c[k])
  BY <1>1, <1>2
<1>4. /\ \A k \in 1 .. n : /\ Shaped(c[k].pass, c[k].todo)
                            /\ c[k].pass # "RPO" /\ c[k].pass \notin v
      /\ \A j, k \in 1 .. n : j < k => Rank(c[k].pass) < Rank(c[j].pass)
      /\ \A k \in 1 .. n - 1 : Held(c[k].pass, c[k].todo) = 0
      /\ v \subseteq PassList \ {"RPO"} /\ Shaped(c[n].pass, t)
  BY DEF Nested, n
<1>5. \A k \in 1 .. n : /\ Shaped(d[k].pass, d[k].todo)
                        /\ d[k].pass # "RPO" /\ d[k].pass \notin w
  BY <1>2, <1>3, <1>4
<1>6. \A j, k \in 1 .. n : j < k => Rank(d[k].pass) < Rank(d[j].pass)
  BY <1>3, <1>4
<1>7. \A k \in 1 .. n - 1 : Held(d[k].pass, d[k].todo) = 0
  BY <1>2, <1>4
<1>8. Nested(d, w)
  BY <1>1, <1>4, <1>5, <1>6, <1>7 DEF Nested
<1>9. n \in 1 .. n /\ Len(c) = n
  BY <1>1 DEF n
<1>10. /\ On(d, c[n].pass) /\ CallIn(d, c[n].pass) = d[n]
       /\ On(c, c[n].pass) /\ CallIn(c, c[n].pass) = c[n]
  BY <1>1, <1>2, <1>8, <1>9, OnlyCall
<1>11. \A q : On(d, q) <=> On(c, q)
  BY <1>1, <1>3, <1>9 DEF On
<1>12. ASSUME NEW q, On(c, q), q # c[n].pass PROVE CallIn(d, q) = CallIn(c, q)
  <2>1. PICK k \in 1 .. n : c[k].pass = q
    BY <1>9, <1>12 DEF On
  <2>2. CallIn(c, q) = c[k] /\ CallIn(d, q) = d[k] /\ k # n
    BY <1>1, <1>3, <1>8, <1>9, <1>12, <2>1, OnlyCall
  <2> QED
    BY <1>3, <2>2
<1> QED
  BY <1>8, <1>10, <1>11, <1>12 DEF n

\* A call of a pass of lower rank begins.
LEMMA PushedNested ==
  ASSUME NEW c \in Seq(Call), NEW v, Nested(c, v), NEW p \in PassList \ {"RPO"}, p \notin v,
         \A k \in 1 .. Len(c) : Rank(p) < Rank(c[k].pass),
         c # <<>> => Held(c[Len(c)].pass, c[Len(c)].todo) = 0
  PROVE  LET d == Append(c, Called(p)) IN
         /\ d \in Seq(Call) /\ Len(d) = Len(c) + 1 /\ d[Len(d)] = Called(p)
         /\ Nested(d, v)
         /\ ~On(c, p) /\ On(d, p) /\ CallIn(d, p) = Called(p)
         /\ \A q : On(d, q) <=> On(c, q) \/ q = p
         /\ \A q : On(c, q) => CallIn(d, q) = CallIn(c, q)
<1> DEFINE n == Len(c)
           d == Append(c, Called(p))
<1>1. Called(p) \in Call /\ Called(p).pass = p /\ Called(p).todo = Script(p)
  BY NewCall DEF Called
<1>2. /\ d \in Seq(Call) /\ Len(d) = n + 1 /\ n \in Nat
      /\ d[n + 1] = Called(p) /\ \A k \in 1 .. n : d[k] = c[k]
  BY <1>1, Pushing
<1>3. Shaped(p, Script(p))
  BY Opening
<1>4. /\ \A k \in 1 .. n : /\ Shaped(c[k].pass, c[k].todo)
                            /\ c[k].pass # "RPO" /\ c[k].pass \notin v
      /\ \A j, k \in 1 .. n : j < k => Rank(c[k].pass) < Rank(c[j].pass)
      /\ \A k \in 1 .. n - 1 : Held(c[k].pass, c[k].todo) = 0
      /\ v \subseteq PassList \ {"RPO"}
      /\ \A k \in 1 .. n : Rank(p) < Rank(c[k].pass)
      /\ n # 0 => Held(c[n].pass, c[n].todo) = 0
      /\ Len(c) = n
  BY DEF Nested
<1> HIDE DEF n, d
<1>5. \A k \in 1 .. n + 1 : k \in 1 .. n \/ k = n + 1
  BY <1>2
<1>6. \A k \in 1 .. n + 1 : /\ Shaped(d[k].pass, d[k].todo)
                            /\ d[k].pass # "RPO" /\ d[k].pass \notin v
  BY <1>1, <1>2, <1>3, <1>4, <1>5
<1>7. ASSUME NEW j \in 1 .. n + 1, NEW k \in 1 .. n + 1, j < k PROVE Rank(d[k].pass) < Rank(d[j].pass)
  <2>1. j \in 1 .. n
    BY <1>2, <1>7
  <2>2. CASE k = n + 1
    BY <1>1, <1>2, <1>4, <2>1, <2>2
  <2>3. CASE k \in 1 .. n
    BY <1>2, <1>4, <1>7, <2>1, <2>3
  <2> QED
    BY <1>5, <2>2, <2>3
<1>8. \A k \in 1 .. n : Held(d[k].pass, d[k].todo) = 0
  BY <1>2, <1>4
<1>9. n + 1 - 1 = n /\ n + 1 \in 1 .. n + 1
  BY <1>2
<1>10. Nested(d, v)
  BY <1>2, <1>4, <1>6, <1>7, <1>8, <1>9 DEF Nested
<1>11. ~On(c, p)
  <2> SUFFICES ASSUME NEW k \in 1 .. n, c[k].pass = p PROVE FALSE
    BY <1>4 DEF On
  <2> QED
    BY <1>4, RankType
<1>12. On(d, p) /\ CallIn(d, p) = Called(p)
  BY <1>1, <1>2, <1>9, <1>10, OnlyCall
<1>13. \A q : On(d, q) <=> On(c, q) \/ q = p
  BY <1>1, <1>2, <1>4, <1>5, <1>9 DEF On
<1>14. ASSUME NEW q, On(c, q) PROVE CallIn(d, q) = CallIn(c, q)
  <2>1. PICK k \in 1 .. n : c[k].pass = q
    BY <1>4, <1>14 DEF On
  <2>2. k \in 1 .. n + 1
    BY <1>2
  <2>3. CallIn(c, q) = c[k] /\ CallIn(d, q) = d[k]
    BY <1>2, <1>4, <1>10, <2>1, <2>2, OnlyCall
  <2> QED
    BY <1>2, <2>3
<1> QED
  BY <1>2, <1>4, <1>10, <1>11, <1>12, <1>13, <1>14 DEF d

\* The running call returns, and its pass becomes valid.
LEMMA PoppedNested ==
  ASSUME NEW c \in Seq(Call), c # <<>>, NEW v, Nested(c, v), c[Len(c)].pass \in PassList
  PROVE  LET p == c[Len(c)].pass IN
         /\ Front(c) \in Seq(Call)
         /\ Nested(Front(c), v \cup {p})
         /\ ~On(Front(c), p) /\ On(c, p) /\ CallIn(c, p) = c[Len(c)] /\ p \notin v /\ p # "RPO"
         /\ \A q : On(c, q) <=> On(Front(c), q) \/ q = p
         /\ \A q : On(Front(c), q) => CallIn(Front(c), q) = CallIn(c, q)
         /\ Front(c) # <<>> => Held(Last(Front(c)).pass, Last(Front(c)).todo) = 0
<1> DEFINE n == Len(c)
           d == Front(c)
           p == c[n].pass
           w == v \cup {p}
<1>1. d \in Seq(Call) /\ Len(d) = n - 1 /\ n \in Nat \ {0} /\ \A k \in 1 .. n - 1 : d[k] = c[k]
  BY Popping
<1>2. /\ \A k \in 1 .. n : /\ Shaped(c[k].pass, c[k].todo)
                            /\ c[k].pass # "RPO" /\ c[k].pass \notin v
      /\ \A j, k \in 1 .. n : j < k => Rank(c[k].pass) < Rank(c[j].pass)
      /\ \A k \in 1 .. n - 1 : Held(c[k].pass, c[k].todo) = 0
      /\ v \subseteq PassList \ {"RPO"} /\ Len(c) = n /\ p \in PassList
  BY DEF Nested
<1>3. n \in 1 .. n /\ \A k \in 1 .. n - 1 : k \in 1 .. n /\ k < n
  BY <1>1
<1>4. d # <<>> => Last(d) = d[n - 1] /\ n - 1 \in 1 .. n - 1
  BY <1>1 DEF Last
<1> HIDE DEF n, d
<1>5. \A k \in 1 .. n - 1 : c[k].pass # p
  BY <1>2, <1>3, RankType
<1>6. \A k \in 1 .. n - 1 : k \in 1 .. n - 1 - 1 => k \in 1 .. n - 1
  OBVIOUS
<1>7. \A k \in 1 .. n - 1 - 1 : k \in 1 .. n - 1
  BY <1>1
<1>8. p # "RPO" /\ p \notin v
  BY <1>2, <1>3
<1>9. Nested(d, w)
  BY <1>1, <1>2, <1>3, <1>5, <1>7, <1>8 DEF Nested
<1>10. ~On(d, p)
  BY <1>1, <1>5 DEF On
<1>11. On(c, p) /\ CallIn(c, p) = c[n]
  BY <1>1, <1>2, <1>3, OnlyCall
<1>12. \A k \in 1 .. n : k \in 1 .. n - 1 \/ k = n
  BY <1>1
<1>13. \A q : On(c, q) <=> On(d, q) \/ q = p
  BY <1>1, <1>2, <1>3, <1>12 DEF On
<1>14. ASSUME NEW q, On(d, q) PROVE CallIn(d, q) = CallIn(c, q)
  <2>1. PICK k \in 1 .. n - 1 : d[k].pass = q
    BY <1>1, <1>14 DEF On
  <2>2. CallIn(d, q) = d[k] /\ CallIn(c, q) = c[k]
    BY <1>1, <1>2, <1>3, <1>9, <2>1, OnlyCall
  <2> QED
    BY <1>1, <2>2
<1>15. d # <<>> => Held(Last(d).pass, Last(d).todo) = 0
  BY <1>1, <1>2, <1>4
<1> QED
  BY <1>1, <1>2, <1>8, <1>9, <1>10, <1>11, <1>13, <1>14, <1>15 DEF d
-----------------------------------------------------------------------------
(***************************************************************************)
(* The accounts.                                                           *)
(***************************************************************************)
LEMMA TotalType == ASSUME NEW f \in [PassList -> Int] PROVE Total(f) \in Int
BY DEF Total, PassList, Rewriting

LEMMA TotalChange ==
  ASSUME NEW f \in [PassList -> Int], NEW g \in [PassList -> Int], NEW p \in PassList,
         \A q \in PassList \ {p} : g[q] = f[q]
  PROVE  Total(g) = Total(f) + (g[p] - f[p])
BY DEF Total, PassList, Rewriting

LEMMA TotalMonotone ==
  ASSUME NEW f \in [PassList -> Int], NEW g \in [PassList -> Int], \A q \in PassList : f[q] <= g[q]
  PROVE  Total(f) <= Total(g)
BY DEF Total, PassList, Rewriting

LEMMA CostType == ASSUME IInv, searched \in Nat PROVE \A p : Cost(p) \in Nat
<1>1. size \in Nat /\ bb - 1 \in Nat /\ 2 + searched \in Nat
  BY SizeAssumption DEF IInv, Types
<1> QED
  BY <1>1 DEF Cost

LEMMA OwedType == ASSUME NEW p, NEW t \in Seq(Op) PROVE Owed(p, t) \in Nat
<1>1. Len(t) \in Nat
  OBVIOUS
<1>2. Len(t) \div 2 \in Nat
  BY <1>1
<1> QED
  BY <1>1, <1>2 DEF Owed

LEMMA SameCosts ==
  ASSUME searched' = searched
  PROVE  \A p : p # "DomTreeSlow" => Cost(p)' = Cost(p)
BY DEF Cost, Rewriting

LEMMA ChargedNext ==
  ASSUME searched' = searched, SlowSpent' = SlowSpent
  PROVE  Charged(calls, valid)' = Charged(calls', valid')
<1>1. ASSUME NEW p, p # "DomTreeSlow" PROVE Spent(calls, valid, p)' = Spent(calls', valid', p)
  BY <1>1, SameCosts DEF Spent, On, CallIn
<1> QED
  BY <1>1 DEF Charged

LEMMA BudgetNext ==
  ASSUME UNCHANGED <<searched, bb, size, valid>>
  PROVE  BudgetOf(calls, valid)' = BudgetOf(calls', valid')
<1>1. \A p : Cost(p)' = Cost(p)
  BY DEF Cost
<1> QED
  BY <1>1 DEF BudgetOf, Begins, On

LEMMA SlowSpentType ==
  ASSUME IInv
  PROVE  /\ SlowSpent \in Nat /\ SlowSpent <= bb - 1 /\ SlowSpent <= size
         /\ pc = "start" => SlowSpent = 0
<1>1. size \in Nat /\ bb \in 2 .. size + 1
  BY SizeAssumption DEF IInv, Types
<1> QED
  BY <1>1 DEF SlowSpent

LEMMA CallInType == ASSUME NEW c \in Seq(Call), NEW p, On(c, p) PROVE CallIn(c, p) \in Call
BY DEF On, CallIn

LEMMA SpentType ==
  ASSUME IInv, searched \in Nat, NEW c \in Seq(Call), NEW v, NEW p
  PROVE  /\ Spent(c, v, p) \in Int /\ Spent(c, v, p) <= Cost(p)
         /\ ~Begins(c, v, p) => Spent(c, v, p) = 0
<1>1. Cost(p) \in Nat
  BY CostType
<1>2. ASSUME On(c, p) PROVE Owed(p, CallIn(c, p).todo) \in Nat
  <2>1. CallIn(c, p) \in Call
    BY <1>2, CallInType
  <2> QED
    BY <2>1, OwedType DEF Call
<1> QED
  BY <1>1, <1>2 DEF Spent, Begins

LEMMA ChargedType ==
  ASSUME IInv, searched \in Nat, NEW c \in Seq(Call), NEW v
  PROVE  Charged(c, v) \in [PassList -> Int] /\ BudgetOf(c, v) \in [PassList -> Int]
<1>1. SlowSpent \in Int
  BY SlowSpentType
<1>2. \A p : Spent(c, v, p) \in Int /\ Cost(p) \in Nat
  BY SpentType, CostType
<1> QED
  BY <1>1, <1>2 DEF Charged, BudgetOf

\* No pass spends more than its budget.
LEMMA Within ==
  ASSUME IInv, searched \in Nat, pc # "abort", NEW c \in Seq(Call), NEW v,
         pc = "start" \/ Begins(c, v, "DomTreeSlow")
  PROVE  Total(Charged(c, v)) <= Total(BudgetOf(c, v))
<1>1. /\ SlowSpent \in Nat /\ SlowSpent <= bb - 1 /\ SlowSpent <= size
      /\ pc = "start" => SlowSpent = 0
  BY SlowSpentType
<1>2. Charged(c, v) \in [PassList -> Int] /\ BudgetOf(c, v) \in [PassList -> Int]
  BY ChargedType
<1>3. ASSUME NEW p \in PassList PROVE Charged(c, v)[p] <= BudgetOf(c, v)[p]
  <2>1. CASE p = "DomTreeSlow"
    <3>1. Cost(p) \in {bb - 1, size} /\ Cost(p) \in Nat
      BY <2>1, CostType DEF Cost
    <3>2. Charged(c, v)[p] = SlowSpent /\ BudgetOf(c, v)[p] = IF Begins(c, v, p) THEN Cost(p) ELSE 0
      BY <2>1 DEF Charged, BudgetOf
    <3>3. SlowSpent <= Cost(p)
      BY <1>1, <3>1
    <3>4. Begins(c, v, p) \/ SlowSpent = 0
      BY <1>1, <2>1
    <3> QED
      BY <3>2, <3>3, <3>4
  <2>2. CASE p # "DomTreeSlow"
    <3>1. /\ Charged(c, v)[p] = Spent(c, v, p)
          /\ BudgetOf(c, v)[p] = IF Begins(c, v, p) THEN Cost(p) ELSE 0
      BY <2>2 DEF Charged, BudgetOf
    <3> QED
      BY <3>1, SpentType
  <2> QED
    BY <2>1, <2>2
<1> QED
  BY <1>2, <1>3, TotalMonotone

LEMMA ReplacedCharged ==
  ASSUME IInv, searched \in Nat,
         NEW c \in Seq(Call), NEW d \in Seq(Call), NEW v, Nested(c, v), NEW t \in Seq(Op), Replaced(c, d, t),
         Shaped(c[Len(c)].pass, t)
  PROVE  Total(Charged(d, v)) = Total(Charged(c, v))
                                + (Owed(c[Len(c)].pass, c[Len(c)].todo) - Owed(c[Len(c)].pass, t))
<1> DEFINE n == Len(c)
           p == c[n].pass
<1>1. /\ On(d, p) /\ CallIn(d, p) = d[n] /\ On(c, p) /\ CallIn(c, p) = c[n]
      /\ \A q : On(d, q) <=> On(c, q)
      /\ \A q : On(c, q) /\ q # p => CallIn(d, q) = CallIn(c, q)
  BY ReplacedNested
<1>2. n \in 1 .. n /\ c[n] \in Call /\ d[n].todo = t
  <2>1. n \in Nat \ {0}
    BY DEF Replaced
  <2> QED
    BY <2>1 DEF Replaced
<1>3. p \in PassList /\ p \notin v
  BY <1>2 DEF Nested, Call
<1>4. Owed(p, c[n].todo) \in Nat /\ Owed(p, t) \in Nat /\ Cost(p) \in Nat
  BY <1>2, OwedType, CostType DEF Call
<1> HIDE DEF n, p
<1>5. \A q \in PassList \ {p} : Spent(d, v, q) = Spent(c, v, q)
  BY <1>1 DEF Spent
<1>6. Spent(c, v, p) = Cost(p) - Owed(p, c[n].todo) /\ Spent(d, v, p) = Cost(p) - Owed(p, t)
  BY <1>1, <1>2, <1>3 DEF Spent
<1>7. Charged(c, v) \in [PassList -> Int] /\ Charged(d, v) \in [PassList -> Int]
  BY ChargedType
<1>8. \A q \in PassList \ {p} : Charged(d, v)[q] = Charged(c, v)[q]
  BY <1>5 DEF Charged
<1>9. Total(Charged(d, v)) = Total(Charged(c, v)) + (Charged(d, v)[p] - Charged(c, v)[p])
  BY <1>3, <1>7, <1>8, TotalChange
<1>10. Charged(d, v)[p] - Charged(c, v)[p] = Owed(p, c[n].todo) - Owed(p, t)
  <2>1. CASE p = "DomTreeSlow"
    <3>1. Charged(d, v)[p] = Charged(c, v)[p] /\ Charged(c, v)[p] \in Int
      BY <1>3, <1>7, <2>1 DEF Charged
    <3>2. Owed(p, t) = 0 /\ Owed(p, c[n].todo) = 0
      BY <2>1 DEF Owed, Rewriting
    <3> QED
      BY <3>1, <3>2
  <2>2. CASE p # "DomTreeSlow"
    <3>1. Charged(d, v)[p] = Spent(d, v, p) /\ Charged(c, v)[p] = Spent(c, v, p)
      BY <1>3, <2>2 DEF Charged
    <3> QED
      BY <1>4, <1>6, <3>1
  <2> QED
    BY <2>1, <2>2
<1> QED
  BY <1>9, <1>10 DEF n, p

LEMMA PushedCharged ==
  ASSUME IInv, searched \in Nat, NEW c \in Seq(Call), NEW v, Nested(c, v),
         NEW p \in PassList \ {"RPO"}, p \notin v, p = "LoopAnalyzer" => searched = 0,
         \A k \in 1 .. Len(c) : Rank(p) < Rank(c[k].pass),
         c # <<>> => Held(c[Len(c)].pass, c[Len(c)].todo) = 0
  PROVE  Charged(Append(c, Called(p)), v) = Charged(c, v)
<1> DEFINE d == Append(c, Called(p))
<1>1. /\ ~On(c, p) /\ On(d, p) /\ CallIn(d, p) = Called(p)
      /\ \A q : On(d, q) <=> On(c, q) \/ q = p
      /\ \A q : On(c, q) => CallIn(d, q) = CallIn(c, q)
  BY PushedNested
<1> HIDE DEF d
<1>2. \A q \in PassList : q # p => Spent(d, v, q) = Spent(c, v, q)
  BY <1>1 DEF Spent
<1>3. p # "DomTreeSlow" => Spent(d, v, p) = Spent(c, v, p)
  <2>1. p # "DomTreeSlow" => Owed(p, Script(p)) = Cost(p)
    BY Opening
  <2>2. Called(p).todo = Script(p) /\ Cost(p) \in Nat
    BY CostType DEF Called
  <2> QED
    BY <1>1, <2>1, <2>2 DEF Spent
<1>4. \A q \in PassList : Charged(d, v)[q] = Charged(c, v)[q]
  BY <1>2, <1>3 DEF Charged
<1> QED
  BY <1>2, <1>3 DEF Charged, d

LEMMA PoppedCharged ==
  ASSUME IInv, searched \in Nat, NEW c \in Seq(Call), c # <<>>, NEW v, Nested(c, v), c[Len(c)].pass \in PassList,
         c[Len(c)].todo = <<>>
  PROVE  Charged(Front(c), v \cup {c[Len(c)].pass}) = Charged(c, v)
<1> DEFINE d == Front(c)
           p == c[Len(c)].pass
           w == v \cup {p}
<1>1. /\ ~On(d, p) /\ On(c, p) /\ CallIn(c, p) = c[Len(c)] /\ p \notin v /\ p # "RPO"
      /\ \A q : On(c, q) <=> On(d, q) \/ q = p
      /\ \A q : On(d, q) => CallIn(d, q) = CallIn(c, q)
  BY PoppedNested
<1>2. Owed(p, <<>>) = 0 /\ Cost(p) \in Nat
  <2>1. <<>> \in Seq(Op) /\ p \in PassList \ {"RPO"}
    BY <1>1
  <2>2. Owed(p, <<>>) = 0
    BY <2>1, Closing
  <2> QED
    BY <2>2, CostType
<1>3. CallIn(c, p).todo = <<>>
  BY <1>1
<1> HIDE DEF d, p
<1>4. \A q \in PassList : q # p => Spent(d, w, q) = Spent(c, v, q)
  BY <1>1 DEF Spent
<1>5. Spent(d, w, p) = Cost(p) /\ Spent(c, v, p) = Cost(p)
  BY <1>1, <1>2, <1>3 DEF Spent
<1> QED
  BY <1>4, <1>5 DEF Charged, d, p
-----------------------------------------------------------------------------
(***************************************************************************)
(* The steps, under both invariants.                                       *)
(***************************************************************************)
Audited == PassInv /\ MarkersInv

\* Passes that have begun stay begun, but for the sweep.
LEMMA StaysStarted ==
  ASSUME Audited, ~Stopped, pc' \in {pc, "abort"}, searched' = searched, Behind' => Behind,
         \A q \in PassList \ {"DCE"} : Begins(calls, valid, q) => Begins(calls', valid', q)
  PROVE  Started'
<1>1. \A q \in PassList \ {"DCE"} : Begins(calls, valid, q) => Begins(calls, valid, q)'
  BY DEF Begins, On
<1>2. {"DomTreeSlow", "LoopAnalyzer", "Inlining"} \subseteq PassList \ {"DCE"}
  BY DEF PassList, Rewriting
<1> QED
  BY <1>1, <1>2 DEF Audited, MarkersInv, Started

\* The step touches neither the epochs nor the order of the blocks.
LEMMA KeptLedger ==
  ASSUME Audited, ~Stopped, UNCHANGED <<epoch, rpoValid, pc, first>>, searched' \in Nat,
         Started', Nested(calls', valid'), slots' = Slots(calls', valid'),
         NEW t \in Int, t = Total(Charged(calls, valid))', Total(Charged(calls, valid)) <= t
  PROVE  MarkersInv'
<1>1. /\ epoch \in Nat /\ first \in Nat /\ pc \notin {"abort", "undefined"} /\ searched \in Nat
      /\ Used <= first + 1 + Total(Charged(calls, valid))
  BY DEF Audited, MarkersInv, Stopped
<1>2. Total(Charged(calls, valid)) \in Int
  BY <1>1, ChargedType, TotalType DEF Audited, PassInv, Managed
<1>3. Used' = Used /\ Used \in Int
  BY <1>1 DEF Used
<1>4. Used' <= first' + 1 + Total(Charged(calls, valid))'
  BY <1>1, <1>2, <1>3
<1>5. Nested(calls, valid)' /\ slots' = Slots(calls, valid)'
  BY DEF Nested, Slots
<1> QED
  BY <1>1, <1>4, <1>5 DEF MarkersInv

\* Nor does it touch anything else of the graph.
LEMMA QuietLedger ==
  ASSUME Audited, ~Stopped, UNCHANGED <<vars, searched>>,
         Nested(calls', valid'), slots' = Slots(calls', valid'),
         Total(Charged(calls, valid)) <= Total(Charged(calls', valid')),
         Total(Charged(calls', valid')) \in Int,
         \A q \in PassList \ {"DCE"} : Begins(calls, valid, q) => Begins(calls', valid', q)
  PROVE  MarkersInv'
<1>1. /\ UNCHANGED <<epoch, rpoValid, pc, first, bb, succ, ordered>> /\ searched' = searched
      /\ searched \in Nat
  BY DEF vars, Audited, MarkersInv
<1>2. SlowSpent' = SlowSpent /\ (Behind' <=> Behind)
  BY <1>1 DEF SlowSpent, Behind
<1>3. Total(Charged(calls, valid))' = Total(Charged(calls', valid'))
  BY <1>1, <1>2, ChargedNext DEF Total
<1>4. Started'
  BY <1>1, <1>2, StaysStarted
<1> QED
  BY <1>1, <1>3, <1>4, KeptLedger

\* The running pass has done one step of its script.
LEMMA Advancing ==
  ASSUME Audited, NEW op, Doing(op)
  PROVE  LET p == Current.pass
             t == Current.todo
         IN  /\ p \in PassList \ {"RPO"} /\ t \in Seq(Op) /\ t # <<>> /\ calls # <<>>
             /\ Current = calls[Len(calls)] /\ Len(calls) \in Nat \ {0}
             /\ Shaped(p, t) /\ Booked(p, t, Tail(t), op) /\ p \notin valid
             /\ Held(p, t) \in Nat /\ Held(p, Tail(t)) \in Nat
             /\ Owed(p, t) \in Nat /\ Owed(p, Tail(t)) \in Nat
             /\ Advanced \in Seq(Call) /\ Replaced(calls, Advanced, Tail(t))
             /\ Nested(Advanced, valid)
             /\ \A q : On(Advanced, q) <=> On(calls, q)
             /\ Total(Charged(Advanced, valid)) = Total(Charged(calls, valid))
                                                  + (Owed(p, t) - Owed(p, Tail(t)))
             /\ Total(Charged(calls, valid)) \in Int
             /\ slots = Slots(calls, valid)
             /\ Slots(calls, valid) = (IF "LinearOrder" \in valid THEN 1 ELSE 0) + Held(p, t)
             /\ Slots(Advanced, valid) = (IF "LinearOrder" \in valid THEN 1 ELSE 0) + Held(p, Tail(t))
<1> DEFINE p == Current.pass
           t == Current.todo
           n == Len(calls)
<1>1. calls \in Seq(Call) /\ calls # <<>> /\ t # <<>> /\ Head(t) = op /\ IInv
      /\ pc \notin {"abort", "undefined"} /\ searched \in Nat
  BY DEF Audited, PassInv, Managed, MarkersInv, Doing, Idle, Stopped
<1>2. Current \in Call /\ Current = calls[n] /\ n \in Nat \ {0}
  BY <1>1, Pop DEF Current, Last
<1>3. Nested(calls, valid) /\ slots = Slots(calls, valid)
  BY <1>1 DEF Audited, MarkersInv
<1>4. p \in PassList \ {"RPO"} /\ t \in Seq(Op) /\ Shaped(p, t) /\ p \notin valid
  BY <1>2, <1>3 DEF Nested, Call
<1>5. Shaped(p, Tail(t)) /\ Booked(p, t, Tail(t), op) /\ Tail(t) \in Seq(Op)
  BY <1>1, <1>4, Booking
<1>6. [Current EXCEPT !.todo = Tail(t)] \in Call
  BY <1>1, <1>2, ShorterCall
<1>7. Advanced \in Seq(Call) /\ Replaced(calls, Advanced, Tail(t))
  BY <1>1, <1>6, Replacing DEF Advanced, Popped, Current
<1>8. Nested(Advanced, valid) /\ \A q : On(Advanced, q) <=> On(calls, q)
  <2>1. Shaped(calls[Len(calls)].pass, Tail(t)) /\ valid \subseteq valid
    BY <1>2, <1>5
  <2> QED
    BY <1>1, <1>3, <1>7, <2>1, ReplacedNested
<1>9. Total(Charged(Advanced, valid)) = Total(Charged(calls, valid)) + (Owed(p, t) - Owed(p, Tail(t)))
  <2>1. /\ Shaped(calls[Len(calls)].pass, Tail(t))
        /\ calls[Len(calls)].pass = p /\ calls[Len(calls)].todo = t
    BY <1>1, <1>2, <1>5
  <2>2. IInv /\ searched \in Nat /\ calls \in Seq(Call) /\ Tail(t) \in Seq(Op)
    BY <1>1, <1>5
  <2>3. PICK u : u = Tail(t)
    OBVIOUS
  <2>4. Total(Charged(Advanced, valid)) =
          Total(Charged(calls, valid))
            + (Owed(calls[Len(calls)].pass, calls[Len(calls)].todo) - Owed(calls[Len(calls)].pass, u))
    <3> HIDE DEF p, t
    <3> QED
      BY <1>3, <1>7, <2>1, <2>2, <2>3, ReplacedCharged
  <2> QED
    BY <2>1, <2>3, <2>4
<1>10. Owed(p, t) \in Nat /\ Owed(p, Tail(t)) \in Nat
  BY <1>4, <1>5, OwedType
<1>11. Held(p, t) \in Nat /\ Held(p, Tail(t)) \in Nat
  <2>1. \A x \in Nat : x % 2 \in Nat
    OBVIOUS
  <2>2. \A x \in Seq(Op) : Held(p, x) \in Nat
    BY <2>1 DEF Held
  <2> QED
    BY <1>4, <1>5, <2>2
<1>12. Total(Charged(calls, valid)) \in Int
  BY <1>1, ChargedType, TotalType
<1>13. Slots(calls, valid) = (IF "LinearOrder" \in valid THEN 1 ELSE 0) + Held(p, t)
  BY <1>1 DEF Slots, Current
<1>14. Slots(Advanced, valid) = (IF "LinearOrder" \in valid THEN 1 ELSE 0) + Held(p, Tail(t))
  <2>1. Advanced # <<>> /\ Last(Advanced).pass = p /\ Last(Advanced).todo = Tail(t)
    BY <1>2, <1>7 DEF Replaced, Last
  <2> QED
    BY <2>1 DEF Slots
<1> QED
  BY <1>1, <1>2, <1>3, <1>4, <1>5, <1>7, <1>8, <1>9, <1>10, <1>11, <1>12, <1>13, <1>14

\* A step of the script that costs no epoch.
LEMMA FreeStep ==
  ASSUME Audited, NEW op, Doing(op), op \in {"erase", "rewrite", "sweep", "unbinding", "calls"},
         UNCHANGED <<vars, searched>>, calls' = Advanced, valid' = valid,
         slots' = IF op = "erase" THEN slots - 1 ELSE slots
  PROVE  MarkersInv'
<1> DEFINE p == Current.pass
           t == Current.todo
<1>1. ~Stopped
  BY DEF Doing
<1>2. /\ Owed(p, Tail(t)) = Owed(p, t)
      /\ Held(p, Tail(t)) = IF op = "erase" THEN Held(p, t) - 1 ELSE Held(p, t)
  BY Advancing DEF Booked
<1>3. Total(Charged(Advanced, valid)) = Total(Charged(calls, valid)) /\ Total(Charged(calls, valid)) \in Int
  BY <1>2, Advancing
<1>4. slots' = Slots(Advanced, valid)
  BY <1>2, Advancing
<1>5. Nested(Advanced, valid) /\ \A q : On(Advanced, q) <=> On(calls, q)
  BY Advancing
<1> QED
  BY <1>1, <1>3, <1>4, <1>5, QuietLedger DEF Begins
\* The running pass begins another one.
LEMMA BeginStep ==
  ASSUME Audited, NEW p \in PassList \ {"RPO"}, Doing(p), p \notin valid, UNCHANGED <<vars, searched>>,
         calls' = Append(Advanced, Called(p)), UNCHANGED <<valid, slots>>
  PROVE  MarkersInv'
<1> DEFINE q == Current.pass
           t == Current.todo
           d == Append(Advanced, Called(p))
<1>1. ~Stopped
  BY DEF Doing
<1>2. /\ Owed(q, Tail(t)) = Owed(q, t) /\ Held(q, Tail(t)) = 0 /\ Held(q, t) = 0
      /\ Rank(p) < Rank(q)
  BY Advancing DEF Booked
<1>3. /\ Advanced \in Seq(Call) /\ Nested(Advanced, valid) /\ Len(Advanced) = Len(calls)
      /\ Advanced[Len(calls)].pass = q /\ Advanced[Len(calls)].todo = Tail(t) /\ Len(calls) \in Nat \ {0}
  BY Advancing DEF Replaced
<1>4. \A k \in 1 .. Len(Advanced) : Rank(p) < Rank(Advanced[k].pass)
  <2> TAKE k \in 1 .. Len(Advanced)
  <2>1. k = Len(calls) \/ k < Len(calls)
    BY <1>3
  <2>2. Len(calls) \in 1 .. Len(Advanced)
    BY <1>3
  <2>3. k < Len(calls) => Rank(q) < Rank(Advanced[k].pass)
    BY <1>3, <2>2 DEF Nested
  <2> QED
    BY <1>2, <1>3, <2>1, <2>3, RankType
<1>5. Held(Advanced[Len(Advanced)].pass, Advanced[Len(Advanced)].todo) = 0
  BY <1>2, <1>3
<1>6. /\ d \in Seq(Call) /\ Nested(d, valid) /\ Len(d) = Len(Advanced) + 1 /\ d[Len(d)] = Called(p)
      /\ \A r : On(d, r) <=> On(Advanced, r) \/ r = p
  BY <1>3, <1>4, <1>5, PushedNested
<1>7. Charged(d, valid) = Charged(Advanced, valid)
  <2>1. IInv /\ searched \in Nat /\ (p = "LoopAnalyzer" => searched = 0 \/ On(Advanced, p))
    BY Advancing DEF Audited, PassInv, MarkersInv, Started, Begins
  <2>2. ~On(Advanced, p)
    BY <1>3, <1>4, <1>5, PushedNested
  <2> QED
    BY <1>3, <1>4, <1>5, <2>1, <2>2, PushedCharged
<1>8. /\ Total(Charged(Advanced, valid)) = Total(Charged(calls, valid)) /\ Total(Charged(calls, valid)) \in Int
      /\ \A r : On(Advanced, r) <=> On(calls, r)
  BY <1>2, Advancing
<1>9. slots' = Slots(d, valid)
  <2>1. slots = IF "LinearOrder" \in valid THEN 1 ELSE 0
    BY <1>2, Advancing
  <2>2. d # <<>> /\ Last(d) = Called(p)
    BY <1>3, <1>6 DEF Last
  <2>3. Held(Last(d).pass, Last(d).todo) = 0
    BY <2>2, Opening DEF Called
  <2> QED
    BY <2>1, <2>2, <2>3 DEF Slots
<1>10. Total(Charged(d, valid)) = Total(Charged(calls, valid))
  BY <1>7, <1>8
<1> HIDE DEF d
<1> QED
  BY <1>1, <1>6, <1>8, <1>9, <1>10, QuietLedger DEF Begins, d

\* A pass that is valid is skipped.
LEMMA SkipStep ==
  ASSUME Audited, NEW p \in PassList \ {"RPO"}, Doing(p), UNCHANGED <<vars, searched>>,
         calls' = Advanced, UNCHANGED <<valid, slots>>
  PROVE  MarkersInv'
<1> DEFINE q == Current.pass
           t == Current.todo
<1>1. ~Stopped
  BY DEF Doing
<1>2. Owed(q, Tail(t)) = Owed(q, t) /\ Held(q, Tail(t)) = 0 /\ Held(q, t) = 0
  BY Advancing DEF Booked
<1>3. Total(Charged(Advanced, valid)) = Total(Charged(calls, valid)) /\ Total(Charged(calls, valid)) \in Int
  BY <1>2, Advancing
<1>4. slots' = Slots(Advanced, valid)
  BY <1>2, Advancing
<1>5. Nested(Advanced, valid) /\ \A r : On(Advanced, r) <=> On(calls, r)
  BY Advancing
<1> QED
  BY <1>1, <1>3, <1>4, <1>5, QuietLedger DEF Begins

\* RPO runs; the stack loses at most the step that asked for it.
LEMMA OrderStep ==
  ASSUME Audited, ~Stopped, OrderBlocks,
         UNCHANGED <<graphVars, searched, valid, slots>>, pc \notin {"unbind", "rerun", "bind"},
         slots <= 1,
         calls' \in Seq(Call), Nested(calls', valid), slots = Slots(calls', valid),
         \A q : On(calls', q) <=> On(calls, q),
         Total(Charged(calls', valid)) = Total(Charged(calls, valid))
  PROVE  MarkersInv'
<1>1. /\ IInv /\ pc \notin {"abort", "undefined"} /\ epoch \in Nat /\ first \in Nat
      /\ Used <= first + 1 + Total(Charged(calls, valid))
      /\ pc = "start" \/ Begins(calls, valid, "DomTreeSlow")
      /\ searched \in Nat /\ UNCHANGED <<size, bb, first>>
  BY DEF Audited, PassInv, MarkersInv, Started, Stopped, graphVars
<1>2. MARKER_NUM \in Nat /\ MARKER_NUM >= 3 /\ MAX_EPOCH \in Nat
  BY SlotsAssumption, EpochAssumption
<1>3. Total(Charged(calls, valid)) \in Int /\ Total(BudgetOf(calls, valid)) \in Int
  BY <1>1, ChargedType, TotalType DEF Audited, PassInv, Managed
<1>4. slots < MARKER_NUM
  <2>1. slots \in Int
    <3>1. \A x \in Nat : x % 2 \in Nat
      OBVIOUS
    <3>2. \A q, x : x \in Seq(Op) => Held(q, x) \in Nat
      BY <3>1 DEF Held
    <3>3. calls' # <<>> => Last(calls').todo \in Seq(Op)
      <4>1. calls' # <<>> => Last(calls') \in Call
        BY Pop
      <4> QED
        BY <4>1 DEF Call
    <3> QED
      BY <3>2, <3>3 DEF Slots
  <2> QED
    BY <1>2, <2>1
<1>5. RunRPO(pc)
  BY <1>4 DEF OrderBlocks
<1>6. Nested(calls, valid)' /\ slots' = Slots(calls, valid)'
  BY DEF Nested, Slots
<1>7. Started'
  <2>1. pc' \in {pc, "abort"} /\ (Behind' => Behind)
    BY <1>1, <1>5, OrderInv DEF RunRPO
  <2> QED
    BY <2>1, StaysStarted DEF Begins
<1>8. CASE pc' = "abort"
  <2>1. ~rpoValid /\ epoch' = epoch + 1 /\ MAX_EPOCH <= epoch + 1
    BY <1>1, <1>2, <1>5, <1>8 DEF RunRPO, EpochAllowed
  <2>2. MAX_EPOCH <= first + 1 + Total(Charged(calls, valid))
    BY <1>1, <1>2, <1>3, <2>1 DEF Used
  <2>3. Total(Charged(calls, valid)) <= Total(BudgetOf(calls, valid))
    BY <1>1, Within DEF Audited, PassInv, Managed
  <2>4. BudgetOf(calls, valid)' = BudgetOf(calls, valid)
    BY <1>1, BudgetNext DEF BudgetOf, Begins
  <2>5. Total(BudgetOf(calls, valid))' = Total(BudgetOf(calls, valid))
    BY <2>4 DEF Total
  <2>6. MAX_EPOCH <= first' + 1 + Total(BudgetOf(calls, valid))'
    BY <1>1, <1>2, <1>3, <2>2, <2>3, <2>5
  <2> QED
    BY <1>1, <1>6, <1>7, <1>8, <2>1, <2>6 DEF MarkersInv
<1>9. CASE pc' # "abort"
  <2>1. /\ pc' = pc /\ epoch' \in Nat
        /\ Used' = Used
    BY <1>1, <1>5, <1>9 DEF RunRPO, Used
  <2>2. Used' <= first' + 1 + Total(Charged(calls', valid))
    BY <1>1, <2>1
  <2>3. SlowSpent' = SlowSpent
    BY <1>1, <2>1 DEF SlowSpent
  <2>4. Charged(calls, valid)' = Charged(calls', valid)
    BY <2>3, ChargedNext
  <2>5. Total(Charged(calls, valid))' = Total(Charged(calls', valid))
    BY <2>4 DEF Total
  <2>6. Used' <= first' + 1 + Total(Charged(calls, valid))'
    BY <2>2, <2>5
  <2> QED
    BY <1>1, <1>6, <1>7, <1>9, <2>1, <2>6 DEF MarkersInv
<1> QED
  BY <1>8, <1>9

LEMMA RequestLedger == ASSUME Audited, NEW p \in PassList, Request(p) PROVE MarkersInv'
<1>1. /\ calls = <<>> /\ ~Stopped /\ calls \in Seq(Call) /\ UNCHANGED <<graphVars, searched, valid, slots>>
      /\ pc \notin {"unbind", "rerun", "bind"} /\ IInv /\ Nested(calls, valid)
      /\ slots = Slots(calls, valid) /\ searched \in Nat
      /\ searched = 0 \/ Begins(calls, valid, "LoopAnalyzer")
  BY DEF Request, Idle, Audited, PassInv, Managed, Holes, MarkersInv, Started, Stopped, loopVars
<1>2. CASE p = "RPO"
  <2>1. OrderBlocks /\ calls' = calls
    BY <1>2 DEF Request
  <2>2. slots <= 1
    BY <1>1 DEF Slots
  <2> QED
    BY <1>1, <2>1, <2>2, OrderStep
<1>3. CASE p # "RPO"
  <2> DEFINE d == Append(calls, Called(p))
  <2>1. p \notin valid /\ UNCHANGED vars /\ calls' = <<Called(p)>>
    BY <1>3 DEF Request, IsPassValid, vars, graphVars
  <2>2. calls' = d /\ Len(calls) = 0 /\ p \in PassList \ {"RPO"}
    BY <1>1, <1>3, <2>1
  <2>3. \A k \in 1 .. Len(calls) : Rank(p) < Rank(calls[k].pass)
    BY <2>2
  <2>4. d \in Seq(Call) /\ Nested(d, valid) /\ \A r : On(d, r) <=> On(calls, r) \/ r = p
    BY <1>1, <2>1, <2>2, <2>3, PushedNested
  <2>5. Charged(d, valid) = Charged(calls, valid)
    <3>1. p = "LoopAnalyzer" => searched = 0
      BY <1>1, <2>1, <2>2 DEF Begins, On
    <3> QED
      BY <1>1, <2>1, <2>2, <2>3, <3>1, PushedCharged
  <2>6. Total(Charged(calls, valid)) \in Int
    BY <1>1, ChargedType, TotalType
  <2>7. slots' = Slots(d, valid)
    <3>1. calls' # <<>> /\ Last(calls') = Called(p)
      BY <2>1 DEF Last
    <3>2. Held(Called(p).pass, Called(p).todo) = 0
      BY <2>2, Opening DEF Called
    <3> QED
      BY <1>1, <2>2, <3>1, <3>2 DEF Slots
  <2> HIDE DEF d
  <2> QED
    BY <1>1, <2>1, <2>2, <2>4, <2>5, <2>6, <2>7, QuietLedger DEF Begins
<1> QED
  BY <1>2, <1>3

LEMMA RunPassLedger == ASSUME Audited, NEW p \in PassList, RunPass(p) PROVE MarkersInv'
<1>1. Doing(p) /\ ~Stopped /\ UNCHANGED <<graphVars, searched, valid, slots>>
  BY DEF RunPass, Doing, loopVars
<1>2. CASE p = "RPO"
  <2> DEFINE q == Current.pass
             t == Current.todo
  <2>1. OrderBlocks /\ calls' = Advanced
    BY <1>2 DEF RunPass
  <2>2. Owed(q, Tail(t)) = Owed(q, t) /\ Held(q, Tail(t)) = 0 /\ Held(q, t) = 0
    BY <1>1, Advancing DEF Booked
  <2>3. slots = Slots(Advanced, valid) /\ slots <= 1
    BY <1>1, <2>2, Advancing
  <2>4. Total(Charged(Advanced, valid)) = Total(Charged(calls, valid))
    BY <1>1, <2>2, Advancing
  <2>5. pc \notin {"unbind", "rerun", "bind"}
    BY <1>1 DEF Audited, PassInv, Managed, Holes, Doing, PassList, Rewriting
  <2> QED
    BY <1>1, <2>1, <2>3, <2>4, <2>5, Advancing, OrderStep
<1>3. CASE p # "RPO"
  <2>1. UNCHANGED vars /\ calls' = IF p \in valid THEN Advanced ELSE Append(Advanced, Called(p))
    BY <1>3 DEF RunPass, IsPassValid, vars, graphVars
  <2> QED
    BY <1>1, <1>3, <2>1, BeginStep, SkipStep
<1> QED
  BY <1>2, <1>3

LEMMA ReturnLedger == Audited /\ Return => MarkersInv'
<1> SUFFICES ASSUME Audited, Return PROVE MarkersInv'
  OBVIOUS
<1> DEFINE p == calls[Len(calls)].pass
           d == Front(calls)
           w == valid \cup {p}
<1>1. /\ calls \in Seq(Call) /\ calls # <<>> /\ ~Stopped /\ UNCHANGED <<vars, searched>> /\ slots' = slots
      /\ Current = calls[Len(calls)] /\ Current.todo = <<>> /\ calls' = d /\ valid' = w
      /\ IInv /\ Nested(calls, valid) /\ slots = Slots(calls, valid) /\ searched \in Nat
  BY DEF Return, Idle, Audited, PassInv, Managed, MarkersInv, Stopped, Validated, Popped, Current, Last
<1>2. p \in PassList
  <2>1. Current \in Call
    BY <1>1, Pop DEF Current
  <2> QED
    BY <1>1, <2>1 DEF Call
<1>3. /\ d \in Seq(Call) /\ Nested(d, w) /\ p \notin valid /\ p # "RPO"
      /\ \A q : On(calls, q) <=> On(d, q) \/ q = p
      /\ d # <<>> => Held(Last(d).pass, Last(d).todo) = 0
  BY <1>1, <1>2, PoppedNested
<1>4. Charged(d, w) = Charged(calls, valid)
  BY <1>1, <1>2, PoppedCharged
<1>5. Total(Charged(calls, valid)) \in Int
  BY <1>1, ChargedType, TotalType
<1>6. slots' = Slots(d, w)
  <2>1. Held(p, <<>>) = IF p = "LinearOrder" THEN 1 ELSE 0
    <3>1. <<>> \in Seq(Op)
      OBVIOUS
    <3> QED
      BY <1>2, <1>3, <3>1, Closing
  <2>2. Slots(calls, valid) = (IF "LinearOrder" \in valid THEN 1 ELSE 0) + Held(p, <<>>)
    BY <1>1 DEF Slots, Current
  <2>3. Slots(d, w) = IF "LinearOrder" \in w THEN 1 ELSE 0
    BY <1>3 DEF Slots
  <2> QED
    BY <1>1, <1>3, <2>1, <2>2, <2>3
<1> HIDE DEF d, p
<1>7. \A q : Begins(calls, valid, q) => Begins(d, w, q)
  BY <1>3 DEF Begins
<1> HIDE DEF w
<1> QED
  BY <1>1, <1>3, <1>4, <1>5, <1>6, <1>7, QuietLedger
LEMMA NewMarkerLedger == Audited /\ NewMarker => MarkersInv'
<1> SUFFICES ASSUME Audited, NewMarker PROVE MarkersInv'
  OBVIOUS
<1> DEFINE p == Current.pass
           t == Current.todo
<1>1. /\ Doing("new") /\ ~Stopped /\ calls' = Advanced /\ epoch' = epoch + 1
      /\ UNCHANGED <<succ, size, bb, rpoValid, first, ordered, searched, valid>>
      /\ IInv /\ pc \notin {"abort", "undefined"} /\ epoch \in Nat /\ first \in Nat
      /\ Used <= first + 1 + Total(Charged(calls, valid)) /\ searched \in Nat
      /\ pc = "start" \/ Begins(calls, valid, "DomTreeSlow")
  BY DEF NewMarker, Doing, Audited, PassInv, MarkersInv, Started, Stopped, graphVars, loopVars
<1>2. MARKER_NUM \in Nat /\ MARKER_NUM >= 3 /\ MAX_EPOCH \in Nat
  BY SlotsAssumption, EpochAssumption
<1>3. Owed(p, Tail(t)) = Owed(p, t) - 1 /\ Held(p, Tail(t)) = Held(p, t) + 1 /\ Held(p, t) <= 1
  BY <1>1, Advancing DEF Booked
<1>4. Advanced \in Seq(Call) /\ Nested(Advanced, valid) /\ \A q : On(Advanced, q) <=> On(calls, q)
  BY <1>1, Advancing
<1>5. /\ Total(Charged(Advanced, valid)) = Total(Charged(calls, valid)) + 1
      /\ Total(Charged(calls, valid)) \in Int
  BY <1>1, <1>3, Advancing
<1>6. slots \in Nat /\ slots <= 2 /\ Slots(Advanced, valid) = slots + 1
  <2>1. /\ slots = (IF "LinearOrder" \in valid THEN 1 ELSE 0) + Held(p, t)
        /\ Slots(Advanced, valid) = (IF "LinearOrder" \in valid THEN 1 ELSE 0) + Held(p, Tail(t))
        /\ Held(p, t) \in Nat
    BY <1>1, Advancing
  <2> QED
    BY <1>3, <2>1
<1>7. Used + 1 <= first + 1 + Total(Charged(Advanced, valid)) /\ Used \in Nat
  BY <1>1, <1>5 DEF Used
<1>8. Nested(calls, valid)' /\ Slots(calls, valid)' = Slots(Advanced, valid)
  BY <1>1, <1>4 DEF Nested, Slots
<1>9. Started'
  <2>1. pc' \in {pc, "abort"}
    BY <1>1, <1>2, <1>6 DEF NewMarker
  <2>2. Behind' => Behind
    BY <1>1 DEF Behind
  <2> QED
    BY <1>1, <1>4, <2>1, <2>2, StaysStarted DEF Begins
<1>10. slots # MARKER_NUM
  BY <1>2, <1>6
<1>11. CASE EpochAllowed(epoch + 1)
  <2>1. slots' = slots + 1 /\ pc' = pc
    BY <1>10, <1>11 DEF NewMarker
  <2>2. Used' = Used + 1 /\ epoch' \in Nat
    BY <1>1 DEF Used
  <2>3. SlowSpent' = SlowSpent
    BY <1>1, <2>1 DEF SlowSpent
  <2>4. Charged(calls, valid)' = Charged(Advanced, valid)
    BY <1>1, <2>3, ChargedNext
  <2>5. Total(Charged(calls, valid))' = Total(Charged(Advanced, valid))
    BY <2>4 DEF Total
  <2>6. Used' <= first' + 1 + Total(Charged(calls, valid))'
    BY <1>1, <1>7, <2>2, <2>5
  <2> QED
    BY <1>1, <1>6, <1>8, <1>9, <2>1, <2>2, <2>6 DEF MarkersInv
<1>12. CASE ~EpochAllowed(epoch + 1)
  <2>1. pc' = "abort" /\ MAX_EPOCH <= epoch + 1
    BY <1>1, <1>2, <1>10, <1>12 DEF NewMarker, EpochAllowed
  <2>2. Total(Charged(Advanced, valid)) <= Total(BudgetOf(Advanced, valid))
    BY <1>1, <1>4, Within DEF Begins
  <2>3. Total(BudgetOf(Advanced, valid)) \in Int
    BY <1>1, <1>4, ChargedType, TotalType
  <2>4. Total(BudgetOf(calls, valid))' = Total(BudgetOf(Advanced, valid))
    BY <1>1, BudgetNext DEF Total
  <2>5. epoch <= Used
    BY <1>1 DEF Used
  <2>6. MAX_EPOCH <= first' + 1 + Total(BudgetOf(calls, valid))'
    BY <1>1, <1>2, <1>5, <1>7, <2>1, <2>2, <2>3, <2>4, <2>5
  <2> QED
    BY <1>1, <1>8, <1>9, <2>1, <2>6 DEF MarkersInv
<1> QED
  BY <1>11, <1>12

LEMMA LoopsLedger == Audited /\ Loops => MarkersInv'
<1> SUFFICES ASSUME Audited, Loops PROVE MarkersInv'
  OBVIOUS
<1> DEFINE p == Current.pass
           t == Current.todo
<1>1. Doing("loops") /\ ~Stopped /\ UNCHANGED vars /\ UNCHANGED <<valid, slots>>
  BY DEF Loops, Doing
<1>2. /\ p = "LoopAnalyzer" /\ Len(t) = 1 /\ t \in Seq(Op) /\ t # <<>> /\ calls # <<>>
      /\ Current = calls[Len(calls)] /\ Len(calls) \in Nat \ {0} /\ p \notin valid
      /\ Shaped(p, t) /\ Head(t) = "loops"
  BY <1>1, Advancing DEF Booked, Doing
<1>3. PICK n \in 0 .. Cardinality(Headers) :
        /\ calls' = Append(Popped, [Current EXCEPT !.todo =
                      [k \in 1 .. 2 * n |-> IF k % 2 = 1 THEN "new" ELSE "erase"] \o Tail(@)])
        /\ searched' = searched + n
  BY DEF Loops
<1> DEFINE s == [k \in 1 .. 2 * n |-> IF k % 2 = 1 THEN "new" ELSE "erase"]
<1>4. 2 * n \in Nat /\ n \in Nat
  BY <1>3, HeaderCountType
<1>5. s \in Seq(Op) /\ Len(s) = 2 * n /\ \A i \in 1 .. 2 * n : s[i] # "rewrite"
  <2>1. \A i \in 1 .. 2 * n : s[i] \in {"new", "erase"}
    OBVIOUS
  <2>2. {"new", "erase"} \subseteq Op \ {"rewrite"}
    BY DEF Op
  <2> QED
    BY <1>4, <2>1, <2>2
<1>6. s \o Tail(t) = s
  <2>1. Tail(t) \in Seq(Op) /\ Len(Tail(t)) = 0
    BY <1>2
  <2>2. Tail(t) = <<>>
    BY <2>1, EmptySeq
  <2> HIDE DEF s
  <2> QED
    BY <1>5, <2>2, ConcatEmptySeq
<1>7. calls \in Seq(Call) /\ IInv /\ searched \in Nat /\ Nested(calls, valid) /\ Current \in Call
  BY <1>1, Step DEF Audited, PassInv, Managed, MarkersInv, Stopped
<1>8. [Current EXCEPT !.todo = s] \in Call /\ calls' = Append(Popped, [Current EXCEPT !.todo = s])
  <2>1. [Current EXCEPT !.todo = s \o Tail(@)] = [Current EXCEPT !.todo = s]
    BY <1>6
  <2>2. [Current EXCEPT !.todo = s \o Tail(@)] \in Call
    BY <1>2, <1>4, <1>5, <1>7, LongerCall
  <2> HIDE DEF s
  <2> QED
    BY <1>3, <2>1, <2>2 DEF s
<1>9. Shaped("LoopAnalyzer", s) /\ Held("LoopAnalyzer", s) = 0 /\ Owed("LoopAnalyzer", s) = n
  BY <1>4, <1>5, LoopsFound
<1> HIDE DEF s
<1>10. calls' \in Seq(Call) /\ Replaced(calls, calls', s)
  BY <1>2, <1>7, <1>8, Replacing DEF Popped, Current
<1>11. /\ Nested(calls', valid) /\ \A q : On(calls', q) <=> On(calls, q)
       /\ On(calls', "LoopAnalyzer")
  <2>1. Shaped(calls[Len(calls)].pass, s) /\ valid \subseteq valid
    BY <1>2, <1>9
  <2>2. Nested(calls', valid) /\ \A q : On(calls', q) <=> On(calls, q)
    BY <1>7, <1>10, <2>1, ReplacedNested
  <2>3. calls[Len(calls)].pass = "LoopAnalyzer" /\ Len(calls) \in 1 .. Len(calls)
    BY <1>2
  <2>4. On(calls, "LoopAnalyzer")
    BY <2>3 DEF On
  <2> QED
    BY <2>2, <2>4
<1>12. Total(Charged(calls', valid)) = Total(Charged(calls, valid)) + (Owed(p, t) - Owed(p, s))
  BY <1>2, <1>5, <1>7, <1>9, <1>10, ReplacedCharged
<1>13. ~Searches(t)
  <2>1. t[1] = "loops" /\ 1 \in 1 .. 1
    BY <1>2
  <2> QED
    BY <1>2, <2>1 DEF Searches
<1>14. Owed(p, t) = 0 /\ Held(p, t) = 0
  BY <1>2, <1>13 DEF Owed, Held, Rewriting
<1> DEFINE f == Charged(calls', valid)
           g == Charged(calls, valid)'
<1>15. /\ \A q \in PassList \ {"LoopAnalyzer"} : g[q] = f[q]
       /\ g["LoopAnalyzer"] = f["LoopAnalyzer"] + n /\ "LoopAnalyzer" \in PassList
  <2>1. SlowSpent' = SlowSpent /\ valid' = valid
    BY <1>1 DEF SlowSpent, vars
  <2>2. \A q : q \notin {"DomTreeSlow", "LoopAnalyzer"} => Cost(q)' = Cost(q)
    BY DEF Cost
  <2>3. ASSUME NEW q, q \notin {"DomTreeSlow", "LoopAnalyzer"}
        PROVE  Spent(calls, valid, q)' = Spent(calls', valid, q)
    BY <2>1, <2>2, <2>3 DEF Spent, On, CallIn
  <2> DEFINE owed == Owed("LoopAnalyzer", CallIn(calls', "LoopAnalyzer").todo)
  <2>4. On(calls', "LoopAnalyzer") /\ owed \in Nat
    <3>1. CallIn(calls', "LoopAnalyzer").todo \in Seq(Op)
      BY <1>10, <1>11, CallInType DEF Call
    <3> QED
      BY <1>11, <3>1, OwedType
  <2>5. Cost("LoopAnalyzer") = 2 + searched /\ Cost("LoopAnalyzer")' = 2 + searched'
    BY DEF Cost
  <2>6. /\ Spent(calls', valid, "LoopAnalyzer") = Cost("LoopAnalyzer") - owed
        /\ Spent(calls, valid, "LoopAnalyzer")' = Cost("LoopAnalyzer")' - owed
    <3>1. "LoopAnalyzer" \notin valid /\ "LoopAnalyzer" \notin valid'
      BY <1>2, <2>1
    <3>2. Spent(calls', valid, "LoopAnalyzer") = Cost("LoopAnalyzer") - owed
      BY <2>4, <3>1 DEF Spent
    <3>3. Spent(calls, valid, "LoopAnalyzer")' = Cost("LoopAnalyzer")' - owed
      BY <2>4, <3>1 DEF Spent, On, CallIn
    <3> QED
      BY <3>2, <3>3
  <2> HIDE DEF owed
  <2>7. Spent(calls, valid, "LoopAnalyzer")' = Spent(calls', valid, "LoopAnalyzer") + n
    <3>1. \A x, y, z \in Int : 2 + (x + y) - z = 2 + x - z + y
      OBVIOUS
    <3>2. 2 + (searched + n) - owed = 2 + searched - owed + n
      BY <1>4, <1>7, <2>4, <3>1
    <3>3. Cost("LoopAnalyzer")' = 2 + (searched + n)
      BY <1>3, <2>5
    <3>4. /\ Spent(calls, valid, "LoopAnalyzer")' = 2 + (searched + n) - owed
          /\ Spent(calls', valid, "LoopAnalyzer") = 2 + searched - owed
      BY <1>4, <1>7, <2>4, <2>5, <2>6, <3>3
    <3> QED
      BY <3>2, <3>4
  <2>8. \A q \in PassList : /\ g[q] = IF q = "DomTreeSlow" THEN SlowSpent' ELSE Spent(calls, valid, q)'
                            /\ f[q] = IF q = "DomTreeSlow" THEN SlowSpent ELSE Spent(calls', valid, q)
    BY DEF Charged
  <2> HIDE DEF f, g
  <2> QED
    BY <2>1, <2>3, <2>7, <2>8 DEF PassList
<1>16. Total(g) = Total(Charged(calls, valid)) /\ Total(g) \in Int
  <2>1. f \in [PassList -> Int] /\ Total(Charged(calls, valid)) \in Int /\ Total(f) \in Int
    BY <1>7, <1>10, ChargedType, TotalType
  <2>2. g \in [PassList -> Int]
    <3>1. \A q \in PassList : g[q] \in Int
      <4> HIDE DEF f, g
      <4> QED
        BY <1>4, <1>15, <2>1
    <3> QED
      BY <3>1 DEF Charged
  <2> HIDE DEF f, g
  <2>3. Total(g) = Total(f) + n
    <3>1. /\ Total(g) = Total(f) + (g["LoopAnalyzer"] - f["LoopAnalyzer"])
          /\ f["LoopAnalyzer"] \in Int
      BY <1>15, <2>1, <2>2, TotalChange
    <3> QED
      BY <1>4, <1>15, <2>1, <3>1
  <2> QED
    BY <1>2, <1>4, <1>9, <1>12, <1>14, <2>1, <2>3 DEF f
<1>17. slots' = Slots(calls', valid')
  <2>1. slots = (IF "LinearOrder" \in valid THEN 1 ELSE 0)
    BY <1>1, <1>14, Advancing
  <2>2. calls' # <<>> /\ Last(calls').pass = "LoopAnalyzer" /\ Last(calls').todo = s
    BY <1>2, <1>10 DEF Replaced, Last
  <2> QED
    BY <1>1, <1>9, <2>1, <2>2 DEF Slots
<1>18. Started'
  <2>1. UNCHANGED <<pc, rpoValid, ordered, succ>>
    BY <1>1 DEF vars
  <2> QED
    BY <1>1, <1>11, <2>1 DEF Audited, MarkersInv, Started, Begins, On, Behind
<1>19. UNCHANGED <<epoch, rpoValid, pc, first>> /\ searched' \in Nat
  BY <1>1, <1>3, <1>4, <1>7 DEF vars
<1> HIDE DEF f
<1>20. Total(g) = Total(Charged(calls, valid))'
  BY DEF Total
<1> HIDE DEF g
<1> QED
  BY <1>1, <1>11, <1>16, <1>17, <1>18, <1>19, <1>20, KeptLedger

LEMMA InvalidateLedger == Audited /\ InvalidateDCE => MarkersInv'
<1> SUFFICES ASSUME Audited, InvalidateDCE PROVE MarkersInv'
  OBVIOUS
<1> DEFINE p == Current.pass
           t == Current.todo
           d == Advanced
           w == valid \ {"DCE"}
<1>1. Doing("invalidate") /\ ~Stopped /\ UNCHANGED <<vars, searched>> /\ slots' = slots /\ calls' = d /\ valid' = w
  BY DEF InvalidateDCE, Doing, loopVars
<1>2. /\ Owed(p, Tail(t)) = Owed(p, t) - 1 /\ Held(p, Tail(t)) = Held(p, t)
      /\ d \in Seq(Call) /\ Nested(d, valid) /\ Replaced(calls, d, Tail(t))
      /\ \A q : On(d, q) <=> On(calls, q)
  BY <1>1, Advancing DEF Booked
<1>3. /\ Total(Charged(d, valid)) = Total(Charged(calls, valid)) + 1
      /\ Total(Charged(calls, valid)) \in Int
  BY <1>1, <1>2, Advancing
<1>4. IInv /\ searched \in Nat /\ Nested(calls, valid)
  BY <1>1 DEF Audited, PassInv, MarkersInv
<1>5. Charged(d, w) \in [PassList -> Int] /\ Charged(d, valid) \in [PassList -> Int]
  BY <1>2, <1>4, ChargedType
<1>6. Nested(d, w)
  BY <1>2 DEF Nested
<1>7. ASSUME NEW q \in PassList \ {"DCE"} PROVE Charged(d, w)[q] = Charged(d, valid)[q]
  BY DEF Charged, Spent
<1>8. Charged(d, w)["DCE"] >= Charged(d, valid)["DCE"] - 1
  <2>1. Cost("DCE") = 1 /\ "DCE" \in PassList
    BY DEF Cost, PassList, Rewriting
  <2>2. CASE "DCE" \in valid
    <3>1. ~On(d, "DCE")
      BY <1>2, <2>2 DEF Nested, On
    <3>2. Spent(d, w, "DCE") = 0 /\ Spent(d, valid, "DCE") = 1
      BY <2>1, <2>2, <3>1 DEF Spent
    <3> QED
      BY <2>1, <3>2 DEF Charged
  <2>3. CASE "DCE" \notin valid
    <3>1. Spent(d, w, "DCE") = Spent(d, valid, "DCE") /\ Spent(d, w, "DCE") \in Int
      BY <1>2, <1>4, <2>3, SpentType DEF Spent
    <3>2. Charged(d, w)["DCE"] = Spent(d, w, "DCE") /\ Charged(d, valid)["DCE"] = Spent(d, valid, "DCE")
      BY <2>1 DEF Charged
    <3> QED
      BY <3>1, <3>2
  <2> QED
    BY <2>2, <2>3
<1>9. Total(Charged(d, w)) = Total(Charged(d, valid)) + (Charged(d, w)["DCE"] - Charged(d, valid)["DCE"])
  <2>1. "DCE" \in PassList
    BY DEF PassList, Rewriting
  <2> QED
    BY <1>5, <1>7, <2>1, TotalChange
<1>10. Total(Charged(calls, valid)) <= Total(Charged(d, w)) /\ Total(Charged(d, w)) \in Int
  <2>1. Charged(d, w)["DCE"] \in Int /\ Charged(d, valid)["DCE"] \in Int
    BY <1>5 DEF PassList, Rewriting
  <2> HIDE DEF d, w
  <2> QED
    BY <1>3, <1>8, <1>9, <2>1
<1>11. slots' = Slots(d, w)
  <2>1. "LinearOrder" \in w <=> "LinearOrder" \in valid
    OBVIOUS
  <2>2. slots = (IF "LinearOrder" \in valid THEN 1 ELSE 0) + Held(p, t)
    BY <1>1, Advancing
  <2>3. Slots(d, w) = (IF "LinearOrder" \in w THEN 1 ELSE 0) + Held(p, Tail(t))
    BY <1>1, Advancing DEF Slots
  <2> QED
    BY <1>1, <1>2, <2>1, <2>2, <2>3
<1>12. \A q \in PassList \ {"DCE"} : Begins(calls, valid, q) => Begins(d, w, q)
  BY <1>2 DEF Begins
<1> HIDE DEF d, w
<1> QED
  BY <1>1, <1>6, <1>10, <1>11, <1>12, QuietLedger
\* A step of DomTreeSlow makes no order that its account does not cover.
LEMMA UnbindLedger == Audited /\ UnbindBlocks => MarkersInv'
<1> SUFFICES ASSUME Audited, UnbindBlocks PROVE MarkersInv'
  OBVIOUS
<1> DEFINE f == Charged(calls, valid)
           g == [p \in PassList |-> IF p = "DomTreeSlow" THEN SlowSpent' ELSE Spent(calls, valid, p)]
<1>1. /\ Doing("unbinding") /\ UNCHANGED <<calls, valid, slots>>
      /\ Start \/ Unbind \/ Rerun \/ Bind
  BY DEF UnbindBlocks, passVars
<1>2. UNCHANGED <<size, first, searched>>
  BY <1>1 DEF Start, Unbind, Rerun, Bind, UnbindBlocks, passVars
<1>3. /\ calls \in Seq(Call) /\ IInv /\ pc \notin {"abort", "undefined"} /\ epoch \in Nat /\ first \in Nat
      /\ Used <= first + 1 + Total(f) /\ Nested(calls, valid) /\ slots = Slots(calls, valid)
      /\ MAX_EPOCH \in Nat /\ searched \in Nat /\ size \in Nat
      /\ pc = "start" \/ Begins(calls, valid, "DomTreeSlow")
  BY <1>1, EpochAssumption, SizeAssumption DEF Doing, Audited, PassInv, Managed, MarkersInv,
     Started, Stopped, IInv, Types
<1>4. On(calls, "DomTreeSlow") /\ Started'
  <2>1. Current.pass = "DomTreeSlow" /\ Current = calls[Len(calls)] /\ Len(calls) \in Nat \ {0}
    BY <1>1, Advancing DEF Booked
  <2>2. On(calls, "DomTreeSlow")
    BY <2>1 DEF On
  <2>3. Behind' => Behind
    <3>1. CASE Start
      BY <3>1 DEF Start, RunRPO, Behind
    <3>2. CASE Unbind
      BY <3>2 DEF Unbind, Invalidate, Behind
    <3>3. CASE Rerun
      BY <3>3 DEF Rerun, RunRPO, Behind
    <3>4. CASE Bind
      BY <3>4 DEF Bind, Invalidate, Behind
    <3> QED
      BY <1>1, <3>1, <3>2, <3>3, <3>4
  <2> QED
    BY <1>1, <1>2, <2>2, <2>3 DEF Audited, MarkersInv, Started, Begins, On
<1>5. SlowSpent \in Nat /\ f \in [PassList -> Int]
  BY <1>3, SlowSpentType, ChargedType
<1>6. bb \in Nat /\ bb >= 2 /\ (pc = "start" => bb = 2)
  BY <1>3 DEF IInv, Types, Turns
<1>7. Nested(calls, valid)' /\ slots' = Slots(calls, valid)'
  BY <1>1, <1>3 DEF Nested, Slots
<1>8. CASE pc' = "abort"
  <2>1. ~rpoValid /\ epoch' = epoch + 1 /\ MAX_EPOCH <= epoch + 1
    <3>1. CASE Start
      BY <1>3, <1>8, <3>1 DEF Start, RunRPO, EpochAllowed
    <3>2. CASE Unbind
      BY <1>8, <3>2 DEF Unbind
    <3>3. CASE Rerun
      BY <1>3, <1>8, <3>3 DEF Rerun, RunRPO, EpochAllowed
    <3>4. CASE Bind
      BY <1>8, <3>4 DEF Bind, LoopHead
    <3> QED
      BY <1>1, <3>1, <3>2, <3>3, <3>4
  <2>2. Total(f) <= Total(BudgetOf(calls, valid))
    BY <1>3, Within
  <2>3. Total(BudgetOf(calls, valid)) \in Int /\ Total(f) \in Int
    BY <1>3, <1>5, ChargedType, TotalType
  <2>4. BudgetOf(calls, valid)' = BudgetOf(calls, valid)
    <3>1. bb' = bb
      BY <1>1, <1>8 DEF Start, Unbind, Rerun, Bind, LoopHead
    <3> QED
      BY <1>1, <1>2, <3>1, BudgetNext
  <2>5. Total(BudgetOf(calls, valid))' = Total(BudgetOf(calls, valid))
    BY <2>4 DEF Total
  <2>6. MAX_EPOCH <= first' + 1 + Total(BudgetOf(calls, valid))'
    <3>1. Used = epoch + 1
      BY <2>1 DEF Used
    <3> HIDE DEF f
    <3> QED
      BY <1>2, <1>3, <2>1, <2>2, <2>3, <2>5, <3>1
  <2> QED
    BY <1>2, <1>3, <1>4, <1>7, <1>8, <2>1, <2>6 DEF MarkersInv
<1>9. CASE pc' # "abort"
  <2>1. /\ epoch' \in Nat /\ SlowSpent' \in Int /\ pc' # "undefined"
        /\ Used' + SlowSpent <= Used + SlowSpent'
    <3>1. CASE Start
      <4>1. /\ pc' = IF size > 1 THEN "unbind" ELSE "done"
            /\ epoch' = epoch + (IF rpoValid THEN 0 ELSE 1) /\ rpoValid' /\ bb' = bb /\ pc = "start"
        BY <1>3, <1>9, <3>1 DEF Start, RunRPO
      <4>2. SlowSpent = 0 /\ SlowSpent' \in Nat
        BY <1>6, <4>1 DEF SlowSpent
      <4>3. Used' = Used /\ Used \in Int /\ epoch' \in Nat
        BY <1>3, <4>1 DEF Used
      <4>4. \A x \in Int, y \in Nat : x + 0 <= x + y
        OBVIOUS
      <4>5. Used' + SlowSpent = Used + 0
        BY <4>2, <4>3
      <4>6. Used + 0 <= Used + SlowSpent'
        BY <4>2, <4>3, <4>4
      <4>7. pc' # "undefined"
        BY <4>1
      <4>8. Used' + SlowSpent <= Used + SlowSpent'
        BY <4>5, <4>6
      <4>9. SlowSpent' \in Int
        BY <4>2
      <4> QED
        BY <4>3, <4>7, <4>8, <4>9
    <3>2. CASE Unbind
      <4>1. pc = "unbind" /\ pc' = "rerun" /\ rpoValid' = FALSE /\ UNCHANGED <<epoch, bb>>
        BY <3>2 DEF Unbind, Invalidate
      <4>2. SlowSpent = bb - 1 - (IF rpoValid THEN 1 ELSE 0) /\ SlowSpent' = bb - 1
        BY <4>1 DEF SlowSpent
      <4>3. Used' = epoch + 1 /\ Used = epoch + (IF rpoValid THEN 0 ELSE 1)
        BY <4>1 DEF Used
      <4> QED
        BY <1>3, <1>6, <4>1, <4>2, <4>3
    <3>3. CASE Rerun
      <4>1. /\ pc' = "bind" /\ pc = "rerun"
            /\ epoch' = epoch + (IF rpoValid THEN 0 ELSE 1) /\ rpoValid' /\ bb' = bb
        BY <1>3, <1>9, <3>3 DEF Rerun, RunRPO
      <4>2. SlowSpent = bb - 1 /\ SlowSpent' = bb - 1
        BY <4>1 DEF SlowSpent
      <4>3. Used' = Used
        BY <1>3, <4>1 DEF Used
      <4> QED
        BY <1>3, <1>6, <4>1, <4>2, <4>3 DEF Used
    <3>4. CASE Bind
      <4>1. /\ pc = "bind" /\ pc' \in {"unbind", "done"} /\ rpoValid' = FALSE
            /\ epoch' = epoch /\ bb' = bb + 1
        BY <3>4 DEF Bind, Invalidate, LoopHead
      <4>2. SlowSpent = bb - 1 /\ SlowSpent' \in {bb' - 1, bb' - 1 - 0}
        BY <4>1 DEF SlowSpent
      <4>3. Used' = epoch + 1 /\ Used \in {epoch, epoch + 1} /\ pc' # "undefined"
        BY <1>3, <4>1 DEF Used
      <4>4. bb \in Int /\ epoch' = epoch /\ SlowSpent' = bb
        BY <1>6, <4>1, <4>2
      <4>5. \A x, y \in Int : x + 1 + (y - 1) <= x + y /\ x + 1 + (y - 1) <= x + 1 + y
        OBVIOUS
      <4> QED
        BY <1>3, <4>2, <4>3, <4>4, <4>5
    <3> QED
      BY <1>1, <3>1, <3>2, <3>3, <3>4
  <2>2. Charged(calls, valid)' = g
    <3>1. ASSUME NEW p, p # "DomTreeSlow" PROVE Spent(calls, valid, p)' = Spent(calls, valid, p)
      BY <1>1, <1>2, <3>1, SameCosts DEF Spent, On, CallIn
    <3> QED
      BY <3>1 DEF Charged
  <2>3. g \in [PassList -> Int] /\ g["DomTreeSlow"] = SlowSpent' /\ f["DomTreeSlow"] = SlowSpent
    <3>1. \A p : Spent(calls, valid, p) \in Int
      BY <1>3, SpentType
    <3> QED
      BY <1>3, <2>1, <3>1 DEF Charged, PassList
  <2>4. \A p \in PassList \ {"DomTreeSlow"} : g[p] = f[p]
    BY DEF Charged
  <2>5. Total(g) = Total(f) + (g["DomTreeSlow"] - f["DomTreeSlow"]) /\ Total(f) \in Int
    <3>1. "DomTreeSlow" \in PassList
      BY DEF PassList
    <3> HIDE DEF f, g
    <3> QED
      BY <1>5, <2>3, <2>4, <3>1, TotalChange, TotalType
  <2>6. Total(Charged(calls, valid))' = Total(g)
    BY <2>2 DEF Total
  <2> HIDE DEF f, g
  <2>7. Used' <= first' + 1 + Total(g)
    <3>1. Used \in Int /\ Used' \in Int
      BY <1>3, <2>1 DEF Used
    <3>2. Total(g) = Total(f) + (SlowSpent' - SlowSpent)
      BY <1>3, <1>5, <2>1, <2>3, <2>5
    <3>3. \A u, w, a, b, x, y \in Int : u <= x + 1 + y /\ w + a <= u + b => w <= x + 1 + (y + (b - a))
      OBVIOUS
    <3>4. Used' <= first + 1 + (Total(f) + (SlowSpent' - SlowSpent))
      <4>1. SlowSpent \in Int /\ SlowSpent' \in Int /\ Total(f) \in Int /\ first \in Int
        BY <1>3, <1>5, <2>1, <2>5
      <4>2. Used <= first + 1 + Total(f) /\ Used' + SlowSpent <= Used + SlowSpent'
        BY <1>3, <2>1 DEF f
      <4> QED
        BY <3>1, <3>3, <4>1, <4>2
    <3> QED
      BY <1>2, <3>2, <3>4
  <2> QED
    BY <1>2, <1>3, <1>4, <1>7, <1>9, <2>1, <2>6, <2>7 DEF MarkersInv
<1> QED
  BY <1>8, <1>9
\* An inlined call costs nothing; the order that it leaves behind is excused
\* by the pass having begun.
LEMMA InlineCallLedger == Audited /\ InlineCall => MarkersInv'
<1> SUFFICES ASSUME Audited, InlineCall PROVE MarkersInv'
  OBVIOUS
<1>1. /\ Doing("calls") /\ ~Stopped
      /\ UNCHANGED <<epoch, rpoValid, pc, first, bb, calls, valid, slots, searched>>
  BY DEF InlineCall, Doing
<1>2. /\ Nested(calls, valid) /\ slots = Slots(calls, valid) /\ searched \in Nat
      /\ Total(Charged(calls, valid)) \in Int
  BY <1>1, Advancing DEF Audited, MarkersInv
<1>3. On(calls, "Inlining")
  BY <1>1, Advancing DEF Booked, On
<1>4. Started'
  BY <1>1, <1>3 DEF Audited, MarkersInv, Started, Begins, On
<1>5. Total(Charged(calls, valid))' = Total(Charged(calls, valid))
  <2>1. SlowSpent' = SlowSpent
    BY <1>1 DEF SlowSpent
  <2> QED
    BY <1>1, <2>1, ChargedNext DEF Total
<1> QED
  BY <1>1, <1>2, <1>4, <1>5, KeptLedger

LEMMA MarkersInitInv == Init /\ PassInit => MarkersInv
<1> SUFFICES ASSUME Init, PassInit PROVE MarkersInv
  OBVIOUS
<1>1. /\ calls = <<>> /\ valid = {} /\ slots = 0 /\ pc = "start" /\ first = epoch
      /\ searched = 0 /\ ordered = succ
      /\ epoch \in 0 .. MAX_EPOCH - 1
  BY DEF Init, PassInit
<1>2. MAX_EPOCH \in Nat
  BY EpochAssumption
<1>3. epoch \in Nat
  BY <1>1, <1>2
<1>4. Len(calls) = 0 /\ ~On(calls, "DomTreeSlow") /\ \A p : ~On(calls, p)
  BY <1>1 DEF On
<1>5. Nested(calls, valid)
  BY <1>1, <1>4 DEF Nested
<1>6. slots = Slots(calls, valid)
  BY <1>1 DEF Slots
<1>7. \A p \in PassList : Charged(calls, valid)[p] = 0
  <2>1. SlowSpent = 0
    BY <1>1 DEF SlowSpent
  <2> QED
    BY <1>1, <1>2, <1>4, <2>1 DEF Charged, Spent
<1>8. Total(Charged(calls, valid)) = 0
  BY <1>7 DEF Total, PassList, Rewriting
<1>9. Used <= first + 1 + Total(Charged(calls, valid))
  BY <1>1, <1>3, <1>8 DEF Used
<1> QED
  BY <1>1, <1>3, <1>5, <1>6, <1>9 DEF MarkersInv, Started, Behind

LEMMA MarkersNextInv == Audited /\ [PassNext]_<<vars, passVars>> => MarkersInv'
<1> SUFFICES ASSUME Audited, [PassNext]_<<vars, passVars>> PROVE MarkersInv'
  OBVIOUS
<1>1. CASE \E p \in PassList : Request(p)
  BY <1>1, RequestLedger
<1>2. CASE \E p \in PassList : RunPass(p)
  BY <1>2, RunPassLedger
<1>3. CASE Return \/ NewMarker \/ Loops \/ InvalidateDCE \/ UnbindBlocks \/ InlineCall
  BY <1>3, ReturnLedger, NewMarkerLedger, LoopsLedger, InvalidateLedger, UnbindLedger, InlineCallLedger
<1>4. CASE EraseMarker
  BY <1>4, FreeStep DEF EraseMarker, loopVars
<1>5. CASE RewriteInsts
  BY <1>5, FreeStep DEF RewriteInsts, loopVars
<1>6. CASE Sweep
  BY <1>6, FreeStep DEF Sweep, loopVars
<1>7. CASE UnboundAll \/ InlinedAll
  BY <1>7, FreeStep DEF UnboundAll, InlinedAll, loopVars
<1>8. CASE UNCHANGED <<vars, passVars>>
  <2>1. /\ UNCHANGED <<succ, size, pc, bb, rpoValid, epoch, first, ordered>>
        /\ UNCHANGED <<calls, valid, slots, searched>>
    BY <1>8 DEF vars, passVars
  <2>2. SlowSpent' = SlowSpent /\ Used' = Used
    BY <2>1 DEF SlowSpent, Used
  <2>3. /\ Charged(calls, valid)' = Charged(calls, valid)
        /\ BudgetOf(calls, valid)' = BudgetOf(calls, valid)
    <3>1. Charged(calls, valid)' = Charged(calls', valid')
      BY <2>1, <2>2, ChargedNext
    <3>2. BudgetOf(calls, valid)' = BudgetOf(calls', valid')
      BY <2>1, BudgetNext
    <3> QED
      BY <2>1, <3>1, <3>2
  <2>4. /\ Total(Charged(calls, valid))' = Total(Charged(calls, valid))
        /\ Total(BudgetOf(calls, valid))' = Total(BudgetOf(calls, valid))
    BY <2>3 DEF Total
  <2>5. Nested(calls, valid)' = Nested(calls, valid) /\ Slots(calls, valid)' = Slots(calls, valid)
        /\ Started' = Started
    BY <2>1 DEF Nested, Slots, Started, Begins, On, Behind
  <2> QED
    BY <2>1, <2>2, <2>4, <2>5 DEF Audited, MarkersInv
<1> QED
  BY <1>1, <1>2, <1>3, <1>4, <1>5, <1>6, <1>7, <1>8 DEF PassNext, Work, Rest

LEMMA AuditedInductive == PassSpec => []Audited
<1>1. Init /\ PassInit => Audited
  BY PassInitInv, MarkersInitInv DEF Audited
<1>2. Audited /\ [PassNext]_<<vars, passVars>> => Audited'
  BY PassNextInv, MarkersNextInv DEF Audited
<1> QED
  BY <1>1, <1>2, PTL DEF PassSpec

(***************************************************************************)
(* A valid order is one of the blocks bound.  Its edges may be those of an *)
(* earlier graph only if Inlining has begun, which leaves the bit of RPO   *)
(* as it is; and not after a run of DomTreeSlow over all blocks, whatever  *)
(* passes a client runs in whatever order and however they run each other. *)
(***************************************************************************)
THEOREM OrdersFresh == PassSpec => []ValidMeansFresh
<1>1. Audited => ValidMeansFresh
  <2> SUFFICES ASSUME Audited, rpoValid PROVE ValidMeansFresh
    BY DEF ValidMeansFresh
  <2>1. Begins(calls, valid, "Inlining") => "Inlining" \in Begun
    BY DEF Begins, On, Begun, Audited, PassInv, Managed
  <2> QED
    BY <2>1 DEF Audited, PassInv, IInv, Order, MarkersInv, Started, Behind, ValidMeansFresh
<1> QED
  BY <1>1, AuditedInductive, PTL

-----------------------------------------------------------------------------
(***************************************************************************)
(* The sum over the passes begun, however they are chosen one by one.      *)
(***************************************************************************)
Share(T) == [p \in PassList |-> IF p \in T THEN Cost(p) ELSE 0]

LEMMA ShareType == ASSUME IInv, searched \in Nat, NEW T PROVE Share(T) \in [PassList -> Int]
BY CostType DEF Share

LEMMA ShareEmpty == Total(Share({})) = 0
BY DEF Total, Share, PassList, Rewriting

LEMMA ShareWithout ==
  ASSUME IInv, searched \in Nat, NEW T \in SUBSET PassList, NEW p \in T
  PROVE  Total(Share(T)) = Cost(p) + Total(Share(T \ {p}))
<1>1. \A q \in PassList \ {p} : Share(T)[q] = Share(T \ {p})[q]
  BY DEF Share
<1>2. Share(T)[p] = Cost(p) /\ Share(T \ {p})[p] = 0 /\ Cost(p) \in Nat
  BY CostType DEF Share
<1>3. Total(Share(T)) = Total(Share(T \ {p})) + (Share(T)[p] - Share(T \ {p})[p])
  BY <1>1, ShareType, TotalChange
<1>4. Total(Share(T \ {p})) \in Int
  BY ShareType, TotalType
<1> QED
  BY <1>2, <1>3, <1>4

\* The number of passes in T.
Tally(T) == Total([p \in PassList |-> IF p \in T THEN 1 ELSE 0])

LEMMA TallyWithout ==
  ASSUME NEW T \in SUBSET PassList
  PROVE  Tally(T) \in Nat /\ \A p \in T : Tally(T \ {p}) < Tally(T)
<1> DEFINE f(U) == [p \in PassList |-> IF p \in U THEN 1 ELSE 0]
<1>1. \A U : f(U) \in [PassList -> Int]
  OBVIOUS
<1>2. ASSUME NEW p \in T PROVE Tally(T \ {p}) < Tally(T)
  <2>1. \A q \in PassList \ {p} : f(T)[q] = f(T \ {p})[q]
    OBVIOUS
  <2>2. f(T)[p] = 1 /\ f(T \ {p})[p] = 0
    OBVIOUS
  <2> HIDE DEF f
  <2>3. Total(f(T)) = Total(f(T \ {p})) + (f(T)[p] - f(T \ {p})[p]) /\ Total(f(T \ {p})) \in Int
    BY <1>1, <2>1, TotalChange, TotalType
  <2> QED
    BY <2>2, <2>3 DEF Tally, f
<1>3. Tally(T) \in Nat
  <2>1. \A p \in PassList : f(T)[p] \in Nat
    OBVIOUS
  <2> HIDE DEF f
  <2> QED
    BY <2>1 DEF Tally, Total, PassList, Rewriting, f
<1> QED
  BY <1>2, <1>3

LEMMA SumIsTotal ==
  ASSUME IInv, searched \in Nat, NEW S \in SUBSET PassList
  PROVE  MapThenSumSet(Cost, S) = Total(Share(S))
<1> DEFINE pick(s) == CHOOSE x \in s : TRUE
           Eqn(f) == f = [s \in SUBSET S |-> IF s = {} THEN 0 ELSE Cost(pick(s)) + f[s \ {pick(s)}]]
           iter == CHOOSE f : Eqn(f)
           g == [s \in SUBSET S |-> Total(Share(s))]
<1>1. MapThenSumSet(Cost, S) = iter[S]
  BY DEF MapThenSumSet, MapThenFoldSet
<1>2. \A s \in SUBSET S : s # {} => pick(s) \in s
  OBVIOUS
<1> HIDE DEF pick
<1>3. Eqn(g)
  <2>1. ASSUME NEW s \in SUBSET S PROVE g[s] = IF s = {} THEN 0 ELSE Cost(pick(s)) + g[s \ {pick(s)}]
    <3>1. CASE s = {}
      BY <3>1, ShareEmpty
    <3>2. CASE s # {}
      <4>1. pick(s) \in s /\ s \in SUBSET PassList /\ s \ {pick(s)} \in SUBSET S
        BY <1>2, <3>2
      <4>2. Total(Share(s)) = Cost(pick(s)) + Total(Share(s \ {pick(s)}))
        BY <4>1, ShareWithout
      <4> QED
        BY <3>2, <4>1, <4>2
    <3> QED
      BY <3>1, <3>2
  <2> HIDE DEF g
  <2>2. g = [s \in SUBSET S |-> g[s]]
    BY DEF g
  <2>3. [s \in SUBSET S |-> g[s]]
        = [s \in SUBSET S |-> IF s = {} THEN 0 ELSE Cost(pick(s)) + g[s \ {pick(s)}]]
    BY <2>1
  <2> QED
    BY <2>2, <2>3
<1>4. Eqn(iter)
  BY <1>3
<1> HIDE DEF iter
<1>5. \A s \in SUBSET S : iter[s] = IF s = {} THEN 0 ELSE Cost(pick(s)) + iter[s \ {pick(s)}]
  BY <1>4
<1>6. \A s \in SUBSET S : g[s] = IF s = {} THEN 0 ELSE Cost(pick(s)) + g[s \ {pick(s)}]
  BY <1>3
<1> HIDE DEF g
<1>7. SUFFICES \A s \in SUBSET S : iter[s] = g[s]
  BY <1>1 DEF g
<1> DEFINE Bad == {s \in SUBSET S : iter[s] # g[s]}
           m == [s \in SUBSET S |-> Tally(s)]
<1>8. SUFFICES ASSUME Bad # {} PROVE FALSE
  OBVIOUS
<1>9. m \in [SUBSET S -> Nat] /\ Bad \in SUBSET SUBSET S
  BY TallyWithout
<1>10. PICK s \in Bad : \A t \in Bad : m[s] <= m[t]
  <2> HIDE DEF Bad, m
  <2> QED
    BY <1>8, <1>9, LeastMeasure
<1>11. s # {}
  BY <1>5, <1>6
<1> DEFINE t == s \ {pick(s)}
<1>12. t \in SUBSET S /\ m[t] < m[s] /\ m[t] \in Nat /\ m[s] \in Nat
  <2>1. pick(s) \in s /\ s \in SUBSET PassList
    BY <1>2, <1>11
  <2> QED
    BY <1>9, <2>1, TallyWithout
<1>13. t \notin Bad
  <2> HIDE DEF Bad, m, t
  <2> QED
    BY <1>10, <1>12
<1>14. iter[t] = g[t]
  BY <1>12, <1>13
<1> QED
  BY <1>5, <1>6, <1>11, <1>14

(***************************************************************************)
(* No sequence of passes runs out of marker slots, and the assertion on    *)
(* epochs fails only when those that the graph had used before and the     *)
(* cost of one run of each pass that has begun, with an order of the       *)
(* blocks, come to MAX_EPOCH: NewMarker and RunPass of any number of       *)
(* passes that run each other, for every graph and every client.           *)
(***************************************************************************)
THEOREM NeverExhausted == PassSpec => []StopsOnlyWhenExhausted
<1>1. Audited => StopsOnlyWhenExhausted
  <2> SUFFICES ASSUME Audited PROVE StopsOnlyWhenExhausted
    OBVIOUS
  <2>1. /\ calls \in Seq(Call) /\ pc # "undefined" /\ valid \subseteq PassList /\ first \in Nat
        /\ IInv /\ searched \in Nat
    BY DEF Audited, PassInv, Managed, MarkersInv, Nested
  <2>2. Begun = {p \in PassList : Begins(calls, valid, p)}
    <3>1. \A k \in DOMAIN calls : calls[k].pass \in PassList
      BY <2>1 DEF Call
    <3>2. DOMAIN calls = 1 .. Len(calls)
      BY <2>1
    <3> QED
      BY <2>1, <3>1, <3>2 DEF Begun, Begins, On
  <2>3. BudgetOf(calls, valid) = Share(Begun)
    BY <2>2 DEF BudgetOf, Share
  <2>4. MapThenSumSet(Cost, Begun) = Total(BudgetOf(calls, valid))
    BY <2>1, <2>2, <2>3, SumIsTotal
  <2>5. Total(BudgetOf(calls, valid)) \in Int /\ MAX_EPOCH \in Nat
    BY <2>1, <2>3, ShareType, TotalType, EpochAssumption
  <2> QED
    BY <2>1, <2>4, <2>5 DEF Audited, MarkersInv, StopsOnlyWhenExhausted
<1> QED
  BY <1>1, AuditedInductive, PTL
=============================================================================
