------------------------------- MODULE Markers -------------------------------
(***************************************************************************)
(* The marker mechanism (ir/marker.h) with which passes remember which     *)
(* blocks they have seen.  A graph hands out markers, a slot number and an *)
(* epoch packed in one word; a block stores one epoch per slot and is      *)
(* marked when the stored epoch equals the marker's.  Erasing a marker     *)
(* only frees its slot: the epochs written in the blocks stay behind, and  *)
(* what a block's array holds before its first write is indeterminate (no  *)
(* constructor initialises it).  Blocks change graphs when a call is       *)
(* inlined and take their epochs along.                                    *)
(***************************************************************************)
EXTENDS Integers, FiniteSets

CONSTANTS Graph,         \* the graphs, each a MarkerManager
          Block,         \* the blocks, each a Markers
          MARKER_NUM,    \* slots per graph
          MAX_EPOCH,     \* the bound NewMarker asserts
          Garbage        \* what an uninitialised entry may hold

ASSUME SizeAssumption    == MARKER_NUM \in Nat /\ MAX_EPOCH \in Nat
ASSUME GarbageAssumption == Garbage \subseteq Nat

VARIABLES
  epoch,      \* current_epoch_ of every graph
  slots,      \* the slots in use of every graph
  held,       \* the markers of every graph that a running pass holds
  markers,    \* markers_ of every block
  graph,      \* graph_ of every block
  status,     \* "ok", "abort" (a failed assertion) or "undefined"
  marked,     \* history: the blocks each held marker was set on
  writer      \* history: the graph whose marker last wrote an entry

vars == <<epoch, slots, held, markers, graph, status, marked, writer>>

Slot   == 0 .. MARKER_NUM - 1
Marker == [slot : Slot, epoch : Nat]
Nobody == "nobody"

ASSUME NobodyAssumption == Nobody \notin Graph

IsMarked(b, m) == markers[b][m.slot] = m.epoch

Init == /\ epoch = [g \in Graph |-> 0]
        /\ slots = [g \in Graph |-> {}]
        /\ held = [g \in Graph |-> {}]
        /\ markers \in [Block -> [Slot -> Garbage]]
        /\ graph \in [Block -> Graph]
        /\ status = "ok"
        /\ marked = [g \in Graph |-> {}]
        /\ writer = [b \in Block |-> [s \in Slot |-> Nobody]]

\* Fault variants: the slot is not recorded; every marker has the same epoch.
ReserveNothing(g, s) == slots' = slots
SameEpoch(g)         == 1

\* The pieces of NewMarker.
NextEpoch(g)      == epoch[g] + 1
LowestFree(g, s)  == s \notin slots[g] /\ 0 .. s - 1 \subseteq slots[g]
Reserve(g, s)     == slots' = [slots EXCEPT ![g] = @ \cup {s}]

\* NewMarker finds a free slot and an epoch within the bound.
NewMarker(g) ==
  /\ status = "ok"
  /\ NextEpoch(g) < MAX_EPOCH
  /\ epoch' = [epoch EXCEPT ![g] = NextEpoch(g)]
  /\ \E s \in Slot :
       /\ LowestFree(g, s)
       /\ Reserve(g, s)
       /\ held' = [held EXCEPT ![g] = @ \cup {[slot |-> s, epoch |-> NextEpoch(g)]}]
  /\ UNCHANGED <<markers, graph, status, marked, writer>>

\* NewMarker finds a slot but its assertion on the epoch fails, or it finds
\* no slot and runs off its end without returning a marker.
NewMarkerFails(g) ==
  /\ status = "ok"
  /\ IF \E s \in Slot : s \notin slots[g]
     THEN NextEpoch(g) >= MAX_EPOCH /\ status' = "abort"
     ELSE status' = "undefined"
  /\ epoch' = [epoch EXCEPT ![g] = NextEpoch(g)]
  /\ UNCHANGED <<slots, held, markers, graph, marked, writer>>

\* EraseMarker: the slot is free again; the blocks keep what was written.
EraseMarker(g, m) ==
  /\ status = "ok" /\ m \in held[g]
  /\ slots' = [slots EXCEPT ![g] = @ \ {m.slot}]
  /\ held' = [held EXCEPT ![g] = @ \ {m}]
  /\ marked' = [marked EXCEPT ![g] = {p \in @ : p[2] # m}]
  /\ UNCHANGED <<epoch, markers, graph, status, writer>>

\* A pass returns and never erases its marker (LinearOrder does): the slot
\* stays in use for the life of the graph.
LeakMarker(g, m) ==
  /\ status = "ok" /\ m \in held[g]
  /\ held' = [held EXCEPT ![g] = @ \ {m}]
  /\ marked' = [marked EXCEPT ![g] = {p \in @ : p[2] # m}]
  /\ UNCHANGED <<epoch, slots, markers, graph, status, writer>>

Write(g, b, m, value) ==
  /\ status = "ok" /\ m \in held[g] /\ graph[b] = g
  /\ markers' = [markers EXCEPT ![b][m.slot] = value]
  /\ writer' = [writer EXCEPT ![b][m.slot] = g]
  /\ UNCHANGED <<epoch, slots, held, graph, status>>

\* A pass marks a block of its graph, or takes the mark back.
SetMarker(g, b, m) ==
  /\ Write(g, b, m, m.epoch)
  /\ marked' = [marked EXCEPT ![g] = @ \cup {<<b, m>>}]

ResetMarker(g, b, m) ==
  /\ Write(g, b, m, 0)
  /\ marked' = [marked EXCEPT ![g] = @ \ {<<b, m>>}]

\* Inlining moves a block of the callee to the caller, between two passes.
MoveBlock(b, g) ==
  /\ status = "ok" /\ graph[b] # g
  /\ held[g] = {} /\ held[graph[b]] = {}
  /\ graph' = [graph EXCEPT ![b] = g]
  /\ UNCHANGED <<epoch, slots, held, markers, status, marked, writer>>

Next ==
  \E g \in Graph :
    \/ NewMarker(g)
    \/ NewMarkerFails(g)
    \/ \E m \in held[g] : EraseMarker(g, m) \/ LeakMarker(g, m)
    \/ \E b \in Block, m \in held[g] : SetMarker(g, b, m) \/ ResetMarker(g, b, m)
    \/ \E b \in Block : MoveBlock(b, g)

Spec == Init /\ [][Next]_vars

-----------------------------------------------------------------------------
\* The type invariant of graphs and blocks.
TypeOK ==
  /\ epoch \in [Graph -> Nat]
  /\ slots \in [Graph -> SUBSET Slot]
  /\ held \in [Graph -> SUBSET Marker]
  /\ markers \in [Block -> [Slot -> Nat]]
  /\ graph \in [Block -> Graph]
  /\ status \in {"ok", "abort", "undefined"}
  /\ marked \in [Graph -> SUBSET (Block \X Marker)]
  /\ writer \in [Block -> [Slot -> Graph \cup {Nobody}]]

\* No mark is lost while its marker is held: neither another pass's marker
\* nor one that reuses a slot number overwrites it (SetMarker, NewMarker,
\* EraseMarker together).
MarksKept == \A g \in Graph : \A p \in marked[g] : IsMarked(p[1], p[2])

\* A block looks marked only if the marker was set on it, with one exception:
\* the entry was never written by this graph, so it holds garbage or an epoch
\* the block brought from the graph it was inlined from.  In particular an
\* epoch of an earlier pass is never taken for a mark of a later one.
NoStaleMarks ==
  \A g \in Graph : \A m \in held[g] : \A b \in Block :
    graph[b] = g /\ IsMarked(b, m) => <<b, m>> \in marked[g] \/ writer[b][m.slot] # g
=============================================================================
