--------------------------- MODULE TaskGraphInline ---------------------------
(***************************************************************************)
(* Building a task graph and running it on the calling thread              *)
(* (Foundation/Sys/Task/API/task_graph.rs: add, set_trigger, depends_on,   *)
(* the pcsc_ calls and dispatch_inline).  Handles are 1, 2, ..., as the    *)
(* code numbers them; a call with handle 0 or with no room left answers    *)
(* 0 or false and changes nothing.                                         *)
(*                                                                         *)
(* The TaskGroup is not here: dispatch_inline adds one task before it      *)
(* calls a node and takes it back after, on the same thread.               *)
(***************************************************************************)
EXTENDS Naturals, Sequences, FiniteSets, Functions

CONSTANTS
  NodeCap, EdgeCap,  \* as given to reserve
  MaxCalls           \* bound: calls that build the graph, add excepted

CapAssumption == NodeCap \in Nat /\ EdgeCap \in Nat /\ MaxCalls \in Nat

VARIABLES
  nodes,        \* node_count
  edges,        \* edges[0 .. edge_count - 1], each <<from, to>>
  trig,         \* per node: dst_id of a NextFrameRoot trigger, 0 for none
  commit,       \* pcsc_commit_idx as a handle, 0 for none
  computes,     \* pcsc_computes
  calls,
  pc,           \* "build", then in dispatch_inline "sources", "call" or "after",
                \* and "done"
  indeg, q, qh, \* locals of dispatch_inline
  scan,         \* the counter of the loop it is in, from 1
  roots,        \* next_roots[0 .. next_roots_count - 1]
  ran,          \* history: the nodes called, in order
  promised      \* history: pairs <<compute, commit>> of the calls of
                \* pcsc_finalize_edges that returned true

bvars == <<nodes, edges, trig, commit, computes>>
qvars == <<indeg, q, qh, scan>>
vars == <<bvars, calls, pc, qvars, roots, ran, promised>>

Handles == 1..nodes
EdgeType == Handles \X Handles

Init ==
  /\ nodes = 0 /\ edges = <<>> /\ trig = <<>>
  /\ commit = 0 /\ computes = <<>>
  /\ calls = 0 /\ pc = "build"
  /\ indeg = <<>> /\ q = <<>> /\ qh = 0 /\ scan = 1
  /\ roots = <<>> /\ ran = <<>> /\ promised = {}

-----------------------------------------------------------------------------
(* Building *)

Add ==
  /\ pc = "build" /\ nodes < NodeCap
  /\ nodes' = nodes + 1
  /\ trig' = Append(trig, 0)
  /\ UNCHANGED <<edges, commit, computes, calls, pc, qvars, roots, ran, promised>>

Call ==
  /\ pc = "build" /\ calls < MaxCalls
  /\ calls' = calls + 1
  /\ UNCHANGED <<nodes, pc, qvars, roots, ran>>

\* Mutant: no test for room.
DependsOnUnchecked(a, b) ==
  /\ Call
  /\ edges' = Append(edges, <<b, a>>)
  /\ UNCHANGED <<trig, commit, computes, promised>>

\* depends_on(a, b), also chain_frames(b, a).
DependsOn(a, b) ==
  /\ Call
  /\ Len(edges) < EdgeCap
  /\ edges' = Append(edges, <<b, a>>)
  /\ UNCHANGED <<trig, commit, computes, promised>>

\* A node has one trigger: a NextTask trigger replaces a NextFrameRoot one.
SetNextTask(src, dst) ==
  /\ Call
  /\ Len(edges) < EdgeCap
  /\ edges' = Append(edges, <<src, dst>>)
  /\ trig' = [trig EXCEPT ![src] = 0]
  /\ UNCHANGED <<commit, computes, promised>>

SetNextFrameRoot(src, dst) ==
  /\ Call
  /\ trig' = [trig EXCEPT ![src] = dst]
  /\ UNCHANGED <<edges, commit, computes, promised>>

PcscSetCommit(h) ==
  /\ Call
  /\ commit' = h
  /\ UNCHANGED <<edges, trig, computes, promised>>

PcscAddCompute(h) ==
  /\ Call
  /\ Len(computes) < NodeCap
  /\ computes' = Append(computes, h)
  /\ UNCHANGED <<edges, trig, commit, promised>>

\* Mutant: the edges lead from the commit node to the computes.
PcscFinalizeReversed ==
  /\ Call
  /\ commit # 0
  /\ LET fit == IF EdgeCap - Len(edges) < Len(computes) THEN EdgeCap - Len(edges)
                ELSE Len(computes)
     IN  /\ edges' = edges \o [i \in 1..fit |-> <<commit, computes[i]>>]
         /\ promised' = IF fit < Len(computes) THEN promised
                        ELSE promised \cup {<<c, commit>> : c \in Range(computes)}
  /\ UNCHANGED <<trig, commit, computes>>

\* The edges that fit are added even when false is returned.
PcscFinalizeEdges ==
  /\ Call
  /\ commit # 0
  /\ LET fit == IF EdgeCap - Len(edges) < Len(computes) THEN EdgeCap - Len(edges)
                ELSE Len(computes)
     IN  /\ edges' = edges \o [i \in 1..fit |-> <<computes[i], commit>>]
         /\ promised' = IF fit < Len(computes) THEN promised
                        ELSE promised \cup {<<c, commit>> : c \in Range(computes)}
  /\ UNCHANGED <<trig, commit, computes>>

-----------------------------------------------------------------------------
(* dispatch_inline *)

Incoming(x) == {k \in DOMAIN edges : edges[k][2] = x}

Begin ==
  /\ pc = "build" /\ nodes > 0
  /\ pc' = "sources" /\ scan' = 1
  /\ indeg' = [x \in Handles |-> Cardinality(Incoming(x))]
  /\ UNCHANGED <<bvars, calls, q, qh, roots, ran, promised>>

QueueSource ==
  /\ pc = "sources"
  /\ q' = IF indeg[scan] = 0 THEN Append(q, scan) ELSE q
  /\ scan' = scan + 1
  /\ pc' = IF scan = nodes THEN "call" ELSE pc
  /\ UNCHANGED <<bvars, calls, indeg, qh, roots, ran, promised>>

CallNode ==
  /\ pc = "call" /\ qh < Len(q)
  /\ pc' = "after" /\ scan' = 1
  /\ qh' = qh + 1
  /\ ran' = Append(ran, q[qh + 1])
  /\ UNCHANGED <<bvars, calls, indeg, q, roots, promised>>

\* Mutant: a node is queued when one predecessor is left, too.
RelaxEarly(x) ==
  IF indeg[x] = 0 THEN UNCHANGED <<indeg, q>>
  ELSE /\ indeg' = [indeg EXCEPT ![x] = @ - 1]
       /\ q' = IF indeg[x] <= 2 THEN Append(q, x) ELSE q

\* An edge to x, out of the node that returned.
Relax(x) ==
  IF indeg[x] = 0 THEN UNCHANGED <<indeg, q>>
  ELSE /\ indeg' = [indeg EXCEPT ![x] = @ - 1]
       /\ q' = IF indeg[x] = 1 THEN Append(q, x) ELSE q

RelaxEdge ==
  /\ pc = "after" /\ scan <= Len(edges)
  /\ IF edges[scan][1] = q[qh] THEN Relax(edges[scan][2]) ELSE UNCHANGED <<indeg, q>>
  /\ scan' = scan + 1
  /\ UNCHANGED <<bvars, calls, pc, qh, roots, ran, promised>>

AfterNode ==
  /\ pc = "after" /\ scan > Len(edges)
  /\ roots' = IF trig[q[qh]] # 0 /\ Len(roots) < NodeCap
              THEN Append(roots, trig[q[qh]]) ELSE roots
  /\ pc' = "call"
  /\ UNCHANGED <<bvars, calls, qvars, ran, promised>>

Return ==
  /\ pc = "call" /\ qh = Len(q)
  /\ pc' = "done"
  /\ UNCHANGED <<bvars, calls, qvars, roots, ran, promised>>

Next ==
  \/ Add
  \/ \E a, b \in Handles :
       DependsOn(a, b) \/ SetNextTask(a, b) \/ SetNextFrameRoot(a, b)
  \/ \E h \in Handles : PcscSetCommit(h) \/ PcscAddCompute(h)
  \/ PcscFinalizeEdges
  \/ Begin \/ QueueSource \/ CallNode \/ RelaxEdge \/ AfterNode \/ Return

Spec == Init /\ [][Next]_vars

-----------------------------------------------------------------------------
(* Properties *)

(***************************************************************************)
(* The queue, a buffer of node_count entries written without a bounds      *)
(* check, never overflows: no node is queued twice, whatever edges,        *)
(* repeated ones and cycles the graph has.                                 *)
(***************************************************************************)
QueueFits == Len(q) <= nodes

\* The nodes on or behind a cycle of edges.
Blocked ==
  UNION {S \in SUBSET Handles : \A x \in S : \E k \in Incoming(x) : edges[k][1] \in S}

(***************************************************************************)
(* When dispatch_inline returns, exactly the nodes that no cycle holds     *)
(* back have run: it returns true for the others too.                      *)
(***************************************************************************)
AllRunnableRan == pc = "done" => Range(ran) = Handles \ Blocked

(***************************************************************************)
(* Compute out of order, commit in order: the commit node of a finalized   *)
(* set of computes runs after every one of them.                           *)
(***************************************************************************)
CommitAfterComputes ==
  \A p \in promised, i \in DOMAIN ran :
    ran[i] = p[2] => \E j \in 1..i-1 : ran[j] = p[1]

(***************************************************************************)
(* Every node runs at most once and after the nodes it depends on.         *)
(***************************************************************************)
Times(s) == [x \in Handles |-> Cardinality({i \in DOMAIN s : s[i] = x})]

Started == Times(ran)
Finished == Times(IF pc = "after" THEN SubSeq(ran, 1, qh - 1) ELSE ran)

Order == INSTANCE TaskOrder WITH n <- nodes, started <- Started, finished <- Finished

OrderStep == [Order!Next]_<<nodes, edges, Started, Finished>>
ImplementsOrder == Order!Init /\ [][OrderStep]_vars
=============================================================================
