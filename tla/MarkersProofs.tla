---------------------------- MODULE MarkersProofs ----------------------------
(***************************************************************************)
(* Theorems about markers, for any number of graphs, blocks, slots and     *)
(* epochs and any garbage in the uninitialised entries.                    *)
(***************************************************************************)
EXTENDS Markers, TLAPS

(***************************************************************************)
(* The inductive invariant, in named parts.                                *)
(***************************************************************************)
\* Held markers carry past epochs and occupy slots of their own.
HeldDistinct ==
  \A g \in Graph : \A m \in held[g] :
    /\ m.slot \in slots[g]
    /\ m.epoch \in 1 .. epoch[g]
    /\ \A n \in held[g] : n.slot = m.slot => n = m

\* A graph writes no epoch it has not reached yet.
WrittenPast ==
  \A b \in Block, s \in Slot, g \in Graph :
    writer[b][s] = g => markers[b][s] <= epoch[g]

\* What was marked belongs to a held marker of the block's graph and is still
\* in the block.
MarkedWritten ==
  \A g \in Graph : \A b \in Block, m \in Marker : <<b, m>> \in marked[g] =>
    m \in held[g] /\ graph[b] = g /\ writer[b][m.slot] = g /\ IsMarked(b, m)

\* An entry the graph wrote equals a held epoch only if that marker was set.
WrittenMarked ==
  \A g \in Graph : \A b \in Block : \A m \in held[g] :
    graph[b] = g /\ writer[b][m.slot] = g /\ IsMarked(b, m) => <<b, m>> \in marked[g]

IInv == TypeOK /\ HeldDistinct /\ WrittenPast /\ MarkedWritten /\ WrittenMarked

LEMMA InitInv == Init => IInv
<1> SUFFICES ASSUME Init PROVE IInv
  OBVIOUS
<1>1. TypeOK
  <2>1. [Block -> [Slot -> Garbage]] \subseteq [Block -> [Slot -> Nat]]
    BY GarbageAssumption
  <2> QED
    BY <2>1 DEF Init, TypeOK
<1>2. \A b \in Block, s \in Slot, g \in Graph : writer[b][s] # g
  BY NobodyAssumption DEF Init
<1>3. HeldDistinct /\ MarkedWritten /\ WrittenMarked
  BY DEF Init, HeldDistinct, MarkedWritten, WrittenMarked
<1> QED
  BY <1>1, <1>2, <1>3 DEF IInv, WrittenPast

LEMMA NewMarkerInv ==
  ASSUME IInv, NEW g \in Graph, NewMarker(g)
  PROVE  IInv'
<1> DEFINE e == NextEpoch(g)
<1>1. PICK s \in Slot :
        /\ s \notin slots[g]
        /\ slots' = [slots EXCEPT ![g] = @ \cup {s}]
        /\ held' = [held EXCEPT ![g] = @ \cup {[slot |-> s, epoch |-> e]}]
  BY DEF NewMarker, LowestFree, Reserve
<1> DEFINE new == [slot |-> s, epoch |-> e]
<1>2. /\ epoch' = [epoch EXCEPT ![g] = epoch[g] + 1] /\ e = epoch[g] + 1
      /\ markers' = markers /\ graph' = graph /\ status' = status
      /\ marked' = marked /\ writer' = writer
  BY DEF NewMarker, NextEpoch
<1>3. new \in Marker /\ new.slot = s /\ new.epoch = e /\ e \in Nat /\ epoch[g] \in Nat
  BY <1>2 DEF IInv, TypeOK, Marker
<1>4. /\ held'[g] = held[g] \cup {new} /\ \A h \in Graph \ {g} : held'[h] = held[h]
      /\ slots'[g] = slots[g] \cup {s} /\ \A h \in Graph \ {g} : slots'[h] = slots[h]
      /\ epoch'[g] = e /\ \A h \in Graph \ {g} : epoch'[h] = epoch[h]
  BY <1>1, <1>2 DEF IInv, TypeOK
<1> HIDE DEF new, e
<1>5. TypeOK'
  BY <1>1, <1>2, <1>3, <1>4 DEF IInv, TypeOK
<1>6. HeldDistinct'
  <2>1. ASSUME NEW m \in held[g] PROVE m.slot # s /\ m.epoch \in 1 .. e /\ m.slot \in slots'[g]
    BY <1>1, <1>2, <1>3, <1>4 DEF IInv, HeldDistinct
  <2>2. e \in 1 .. e /\ s \in slots'[g]
    BY <1>2, <1>3, <1>4
  <2>3. \A m \in held'[g] : /\ m.slot \in slots'[g] /\ m.epoch \in 1 .. epoch'[g]
                            /\ \A n \in held'[g] : n.slot = m.slot => n = m
    BY <1>3, <1>4, <2>1, <2>2 DEF IInv, HeldDistinct
  <2> QED
    BY <1>4, <2>3 DEF IInv, HeldDistinct
<1>7. WrittenPast'
  <2> SUFFICES ASSUME NEW b \in Block, NEW q \in Slot, NEW h \in Graph, writer[b][q] = h
               PROVE  markers[b][q] <= epoch'[h]
    BY <1>2 DEF WrittenPast
  <2>1. markers[b][q] <= epoch[h] /\ markers[b][q] \in Nat /\ epoch[h] \in Nat
    BY DEF IInv, WrittenPast, TypeOK
  <2> QED
    BY <2>1, <1>2, <1>3, <1>4
<1>8. MarkedWritten'
  BY <1>2, <1>4 DEF IInv, MarkedWritten, IsMarked
<1>9. WrittenMarked'
  <2> SUFFICES ASSUME NEW h \in Graph, NEW b \in Block, NEW m \in held'[h],
                      graph[b] = h, writer[b][m.slot] = h, markers[b][m.slot] = m.epoch
               PROVE  <<b, m>> \in marked[h]
    BY <1>2 DEF WrittenMarked, IsMarked
  <2>1. CASE m \in held[h]
    BY <2>1 DEF IInv, WrittenMarked, IsMarked
  <2>2. CASE m \notin held[h]
    <3>1. h = g /\ m = new
      BY <2>2, <1>4
    <3>2. markers[b][s] <= epoch[g]
      BY <3>1, <1>3 DEF IInv, WrittenPast
    <3> QED
      BY <3>1, <3>2, <1>2, <1>3
  <2> QED
    BY <2>1, <2>2
<1> QED
  BY <1>5, <1>6, <1>7, <1>8, <1>9 DEF IInv

LEMMA NewMarkerFailsInv ==
  ASSUME IInv, NEW g \in Graph, NewMarkerFails(g)
  PROVE  IInv'
<1> USE DEF NewMarkerFails, NextEpoch
<1>1. /\ epoch[g] \in Nat /\ epoch'[g] = epoch[g] + 1
      /\ \A h \in Graph \ {g} : epoch'[h] = epoch[h] /\ epoch[h] \in Nat
  BY DEF IInv, TypeOK
<1>2. TypeOK'
  BY DEF IInv, TypeOK
<1>3. HeldDistinct'
  BY <1>1 DEF IInv, HeldDistinct
<1>4. WrittenPast'
  BY <1>1 DEF IInv, TypeOK, WrittenPast
<1>5. MarkedWritten' /\ WrittenMarked'
  BY DEF IInv, MarkedWritten, WrittenMarked, IsMarked
<1> QED
  BY <1>2, <1>3, <1>4, <1>5 DEF IInv

\* A marker leaves the held set; its slot may or may not be freed.
LEMMA ReleaseInv ==
  ASSUME IInv, NEW g \in Graph, NEW m \in held[g], EraseMarker(g, m) \/ LeakMarker(g, m)
  PROVE  IInv'
<1>1. /\ held' = [held EXCEPT ![g] = @ \ {m}]
      /\ marked' = [marked EXCEPT ![g] = {p \in @ : p[2] # m}]
      /\ slots' \in [Graph -> SUBSET Slot]
      /\ \A h \in Graph : slots[h] \ slots'[h] \subseteq IF h = g THEN {m.slot} ELSE {}
      /\ epoch' = epoch /\ markers' = markers /\ graph' = graph
      /\ status' = status /\ writer' = writer
  BY DEF EraseMarker, LeakMarker, IInv, TypeOK
<1>2. /\ held'[g] = held[g] \ {m} /\ marked'[g] = {p \in marked[g] : p[2] # m}
      /\ \A h \in Graph \ {g} : held'[h] = held[h] /\ marked'[h] = marked[h]
  BY <1>1 DEF IInv, TypeOK
<1>3. TypeOK'
  BY <1>1 DEF IInv, TypeOK
<1>4. HeldDistinct'
  <2> SUFFICES ASSUME NEW h \in Graph, NEW n \in held'[h]
               PROVE  /\ n.slot \in slots'[h] /\ n.epoch \in 1 .. epoch'[h]
                      /\ \A k \in held'[h] : k.slot = n.slot => k = n
    BY DEF HeldDistinct
  <2>1. n \in held[h] /\ held'[h] \subseteq held[h] /\ (h = g => n # m)
    BY <1>2
  <2> QED
    BY <2>1, <1>1 DEF IInv, HeldDistinct
<1>5. WrittenPast'
  BY <1>1 DEF IInv, WrittenPast
<1>6. MarkedWritten'
  BY <1>1, <1>2 DEF IInv, MarkedWritten, IsMarked
<1>7. WrittenMarked'
  BY <1>1, <1>2 DEF IInv, WrittenMarked, IsMarked
<1> QED
  BY <1>3, <1>4, <1>5, <1>6, <1>7 DEF IInv

LEMMA WriteInv ==
  ASSUME IInv, NEW g \in Graph, NEW b \in Block, NEW m \in held[g],
         SetMarker(g, b, m) \/ ResetMarker(g, b, m)
  PROVE  IInv'
<1>1. PICK v \in {0, m.epoch} :
        /\ markers' = [markers EXCEPT ![b][m.slot] = v]
        /\ writer' = [writer EXCEPT ![b][m.slot] = g]
        /\ graph[b] = g
        /\ marked' = [marked EXCEPT ![g] = IF v = 0 THEN @ \ {<<b, m>>} ELSE @ \cup {<<b, m>>}]
        /\ epoch' = epoch /\ slots' = slots /\ held' = held /\ graph' = graph
        /\ status' = status
  <2>1. m.epoch # 0
    BY DEF IInv, HeldDistinct
  <2> QED
    BY <2>1 DEF SetMarker, ResetMarker, Write
<1>2. /\ m \in Marker /\ m.slot \in Slot /\ m.epoch \in Nat /\ m.epoch # 0
      /\ m.epoch <= epoch[g] /\ epoch[g] \in Nat /\ v \in Nat
  BY DEF IInv, TypeOK, HeldDistinct, Marker
<1>3. /\ markers'[b][m.slot] = v /\ writer'[b][m.slot] = g
      /\ \A c \in Block, s \in Slot : c # b \/ s # m.slot =>
           markers'[c][s] = markers[c][s] /\ writer'[c][s] = writer[c][s]
      /\ marked'[g] = IF v = 0 THEN marked[g] \ {<<b, m>>} ELSE marked[g] \cup {<<b, m>>}
      /\ \A h \in Graph \ {g} : marked'[h] = marked[h]
  BY <1>1, <1>2 DEF IInv, TypeOK
<1>4. TypeOK'
  BY <1>1, <1>2 DEF IInv, TypeOK
<1>5. HeldDistinct'
  BY <1>1 DEF IInv, HeldDistinct
<1>6. WrittenPast'
  BY <1>1, <1>2, <1>3 DEF IInv, WrittenPast
<1>7. MarkedWritten'
  <2> SUFFICES ASSUME NEW h \in Graph, NEW c \in Block, NEW n \in Marker,
                      <<c, n>> \in marked'[h]
               PROVE  /\ n \in held[h] /\ graph[c] = h /\ writer'[c][n.slot] = h
                      /\ markers'[c][n.slot] = n.epoch
    BY <1>1 DEF MarkedWritten, IsMarked
  <2>1. CASE h = g /\ c = b /\ n = m
    BY <2>1, <1>1, <1>2, <1>3
  <2>2. CASE ~(h = g /\ c = b /\ n = m)
    <3>1. <<c, n>> \in marked[h] /\ n.slot \in Slot
      BY <2>2, <1>3 DEF Marker
    <3>2. n \in held[h] /\ graph[c] = h /\ writer[c][n.slot] = h /\ markers[c][n.slot] = n.epoch
      BY <3>1 DEF IInv, MarkedWritten, IsMarked
    <3>3. c # b \/ n.slot # m.slot
      BY <2>2, <3>2, <1>1 DEF IInv, HeldDistinct
    <3> QED
      BY <3>1, <3>2, <3>3, <1>3
  <2> QED
    BY <2>1, <2>2
<1>8. WrittenMarked'
  <2> SUFFICES ASSUME NEW h \in Graph, NEW c \in Block, NEW n \in held[h],
                      graph[c] = h, writer'[c][n.slot] = h, markers'[c][n.slot] = n.epoch
               PROVE  <<c, n>> \in marked'[h]
    BY <1>1 DEF WrittenMarked, IsMarked
  <2>1. n.slot \in Slot
    BY DEF IInv, TypeOK, Marker
  <2>2. CASE c = b /\ n.slot = m.slot
    <3>1. h = g /\ n = m
      BY <2>2, <1>1 DEF IInv, HeldDistinct
    <3> QED
      BY <3>1, <2>2, <1>2, <1>3
  <2>3. CASE c # b \/ n.slot # m.slot
    <3>1. <<c, n>> \in marked[h]
      BY <2>1, <2>3, <1>3 DEF IInv, WrittenMarked, IsMarked
    <3> QED
      BY <3>1, <2>3, <1>3
  <2> QED
    BY <2>2, <2>3
<1> QED
  BY <1>4, <1>5, <1>6, <1>7, <1>8 DEF IInv

LEMMA MoveBlockInv ==
  ASSUME IInv, NEW b \in Block, NEW g \in Graph, MoveBlock(b, g)
  PROVE  IInv'
<1>1. /\ graph[b] # g /\ graph[b] \in Graph /\ held[g] = {} /\ held[graph[b]] = {}
      /\ graph' = [graph EXCEPT ![b] = g]
      /\ epoch' = epoch /\ slots' = slots /\ held' = held /\ markers' = markers
      /\ status' = status /\ marked' = marked /\ writer' = writer
  BY DEF MoveBlock, IInv, TypeOK
<1>2. graph'[b] = g /\ \A c \in Block \ {b} : graph'[c] = graph[c]
  BY <1>1 DEF IInv, TypeOK
<1>3. TypeOK'
  BY <1>1 DEF IInv, TypeOK
<1>4. HeldDistinct' /\ WrittenPast'
  BY <1>1 DEF IInv, HeldDistinct, WrittenPast
<1>5. MarkedWritten' /\ WrittenMarked'
  BY <1>1, <1>2 DEF IInv, MarkedWritten, WrittenMarked, IsMarked
<1> QED
  BY <1>3, <1>4, <1>5 DEF IInv

LEMMA NextInv == IInv /\ [Next]_vars => IInv'
<1> SUFFICES ASSUME IInv, [Next]_vars PROVE IInv'
  OBVIOUS
<1>1. CASE Next
  BY <1>1, NewMarkerInv, NewMarkerFailsInv, ReleaseInv, WriteInv, MoveBlockInv DEF Next
<1>2. CASE UNCHANGED vars
  BY <1>2 DEF vars, IInv, TypeOK, HeldDistinct, WrittenPast, MarkedWritten,
              WrittenMarked, IsMarked
<1> QED
  BY <1>1, <1>2

LEMMA Inductive == Spec => []IInv
<1> QED
  BY InitInv, NextInv, PTL DEF Spec

(***************************************************************************)
(* The mark state stays well formed.                                       *)
(***************************************************************************)
THEOREM TypeCorrect == Spec => []TypeOK
<1>1. IInv => TypeOK
  BY DEF IInv
<1> QED
  BY <1>1, Inductive, PTL

(***************************************************************************)
(* A mark lasts as long as its marker is held, whatever other passes do    *)
(* with their markers in between.                                          *)
(***************************************************************************)
THEOREM MarksLast == Spec => []MarksKept
<1>1. IInv => MarksKept
  <2> SUFFICES ASSUME IInv, NEW g \in Graph, NEW p \in marked[g]
               PROVE  IsMarked(p[1], p[2])
    BY DEF MarksKept
  <2>1. p = <<p[1], p[2]>> /\ p[1] \in Block /\ p[2] \in Marker
    BY DEF IInv, TypeOK
  <2> QED
    BY <2>1 DEF IInv, MarkedWritten
<1> QED
  BY <1>1, Inductive, PTL

(***************************************************************************)
(* Nothing but garbage in a never written entry, or an epoch brought from  *)
(* another graph, can be mistaken for a mark.                              *)
(***************************************************************************)
THEOREM NothingStale == Spec => []NoStaleMarks
<1>1. IInv => NoStaleMarks
  BY DEF IInv, WrittenMarked, NoStaleMarks
<1> QED
  BY <1>1, Inductive, PTL
=============================================================================
