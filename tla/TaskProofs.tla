----------------------------- MODULE TaskProofs -----------------------------
(***************************************************************************)
(* Of the parallel execution of a graph, for every graph and any number of *)
(* workers: with the roots added last, each node runs at most once, after  *)
(* the nodes it depends on, as the racing counts can be too high, which    *)
(* leaves a node waiting, but never too low; the task group's count is     *)
(* exact; frames are paced; and with one worker the roots stay within      *)
(* their array.  Jobs that clashing pushes lose change none of it; once a  *)
(* job is handed out again the model follows the program no further.       *)
(***************************************************************************)
EXTENDS TaskRuntime, FiniteSetTheorems, TLAPS

USE PoolsAssumption, GraphsAssumption, CounterAssumption

Edges == DOMAIN graph.edges

\* What dispatch needs of the order in which nodes were added: no node with
\* predecessors comes after one without.
RootsLast(g) ==
  \A x, y \in 1..g.n :
    (\E k \in DOMAIN g.edges : g.edges[k][2] = x) /\ (\A k \in DOMAIN g.edges : g.edges[k][2] # y)
      => x < y

\* Worker w has yet to decrement the target of edge k.
WillTake(w, k) ==
  \/ wpc[w] \in {"running", "taskDone", "edges", "decrement"} /\ wk[w] <= k
  \/ wpc[w] \in {"enqueue", "addTask"} /\ wk[w] < k

PendingEdge(k) ==
  \/ started[From(k)] = 0
  \/ \E w \in Workers : wn[w] = From(k) /\ WillTake(w, k)

\* The incoming edges of x that have not been taken off its count.
Pending(x) == {k \in Incoming(x) : PendingEdge(k)}

PTypeOK ==
  /\ graph \in Graphs /\ RootsLast(graph) /\ pool \in Pools
  /\ indeg \in [Nodes -> Nat] /\ jobs \in [Nodes -> Nat]
  /\ started \in [Nodes -> Nat] /\ finished \in [Nodes -> Nat]
  /\ nroots \in Nat
  /\ dpc \in {"begin", "scan", "add", "done"} /\ di \in Nat
  /\ wpc \in [Workers -> States]
  /\ wn \in [Workers -> Nat] /\ wk \in [Workers -> Nat] /\ wv \in [Workers -> Nat]

\* A worker that is busy has the node to itself, which has started once.
WorkersInv ==
  /\ \A w \in Workers :
       /\ wpc[w] # "idle" => wn[w] \in Nodes /\ started[wn[w]] = 1 /\ wk[w] >= 1
       /\ wpc[w] \in {"running", "taskDone"} => wk[w] = 1
       /\ wpc[w] \in {"decrement", "enqueue", "addTask"} =>
            wk[w] \in Edges /\ From(wk[w]) = wn[w]
       /\ wpc[w] = "decrement" => wv[w] >= 1
  /\ \A u, w \in Workers : wpc[u] # "idle" /\ wpc[w] # "idle" /\ wn[u] = wn[w] => u = w

FinishedInv ==
  \A x \in Nodes :
    /\ finished[x] \in {0, 1}
    /\ finished[x] = 1 <=>
         started[x] = 1 /\ \A w \in Workers : wpc[w] = "running" => wn[w] # x

\* The counts are never too low, nor is a count that a worker has read.
CountsInv ==
  dpc # "begin" =>
    /\ \A x \in Nodes : indeg[x] >= Cardinality(Pending(x))
    /\ \A w \in Workers : wpc[w] = "decrement" => wv[w] >= Cardinality(Pending(To(wk[w])))

\* Only nodes without pending edges are enqueued, each by one worker.
ReadyInv ==
  /\ \A x \in Nodes : started[x] + jobs[x] > 0 => Pending(x) = {}
  /\ \A w \in Workers : wpc[w] = "enqueue" =>
       Pending(To(wk[w])) = {} /\ started[To(wk[w])] + jobs[To(wk[w])] = 0
  /\ \A u, w \in Workers :
       wpc[u] = "enqueue" /\ wpc[w] = "enqueue" /\ To(wk[u]) = To(wk[w]) => u = w

Untouched ==
  /\ \A x \in Nodes : started[x] = 0 /\ jobs[x] = 0
  /\ \A w \in Workers : wpc[w] = "idle"

\* The scan enqueues nothing until it is past the nodes with predecessors.
ScanInv ==
  /\ dpc = "begin" => Untouched
  /\ dpc = "scan" =>
       /\ di >= 1
       /\ (\E y \in Nodes : y >= di /\ Incoming(y) # {}) => Untouched
       /\ \A x \in Nodes : Incoming(x) = {} /\ x >= di => started[x] + jobs[x] = 0
  /\ dpc = "add" =>
       /\ di \in Nodes /\ Incoming(di) = {}
       /\ \A x \in Nodes : Incoming(x) = {} /\ x > di => started[x] + jobs[x] = 0

GraphInv ==
  /\ PTypeOK /\ WorkersInv /\ FinishedInv /\ CountsInv /\ ReadyInv /\ ScanInv
  /\ AtMostOnce

\* What the steps of a clash leave alone: all but what the deques hold.
seen == <<graph, pool, indeg, jobs, tg, roots, dvars, wvars, hist>>

LEMMA ClashUnseen == Clash \/ UNCHANGED gvars => UNCHANGED seen
BY DEF Clash, LoseJob, RepeatJob, gvars, seen, roots, dvars, wvars, hist

-----------------------------------------------------------------------------
(* The graph and its edges *)

LEMMA GraphFacts ==
  ASSUME PTypeOK
  PROVE  /\ graph.n \in Nat /\ Len(graph.edges) \in Nat
         /\ Edges = 1..Len(graph.edges)
         /\ \A k \in Edges : From(k) \in Nodes /\ To(k) \in Nodes /\ k \in Incoming(To(k))
<1>1. IsGraph(graph)
  BY DEF PTypeOK
<1>2. graph.n \in Nat /\ graph.edges \in Seq((1..graph.n) \X (1..graph.n))
  BY <1>1 DEF IsGraph
<1>3. Len(graph.edges) \in Nat /\ Edges = 1..Len(graph.edges)
  BY <1>2 DEF Edges
<1>4. ASSUME NEW k \in Edges
      PROVE  From(k) \in Nodes /\ To(k) \in Nodes /\ k \in Incoming(To(k))
  <2>1. graph.edges[k] \in (1..graph.n) \X (1..graph.n)
    BY <1>2, <1>3
  <2>2. QED
    BY <2>1 DEF From, To, Nodes, Incoming, Edges
<1>5. QED
  BY <1>2, <1>3, <1>4

LEMMA PendingFinite ==
  ASSUME PTypeOK, NEW x
  PROVE  /\ IsFiniteSet(Incoming(x)) /\ IsFiniteSet(Pending(x))
         /\ Cardinality(Incoming(x)) \in Nat /\ Cardinality(Pending(x)) \in Nat
         /\ Pending(x) = {} <=> Cardinality(Pending(x)) = 0
         /\ Cardinality(Pending(x)) <= Cardinality(Incoming(x))
<1>1. IsFiniteSet(Edges)
  BY GraphFacts, FS_Interval
<1>2. Incoming(x) \subseteq Edges /\ Pending(x) \subseteq Incoming(x)
  BY DEF Incoming, Pending, Edges
<1>3. QED
  BY <1>1, <1>2, FS_Subset, FS_CardinalityType, FS_EmptySet

\* A step that leaves each edge pending or not leaves Pending alone.
LEMMA PendingSame ==
  ASSUME PTypeOK, graph' = graph, \A k \in Edges : PendingEdge(k)' <=> PendingEdge(k)
  PROVE  \A x : Incoming(x)' = Incoming(x) /\ Pending(x)' = Pending(x)
BY DEF Incoming, Pending, To, Edges

\* The edges of a node whose decrement is ahead.
LEMMA OwnEdgePending ==
  ASSUME PTypeOK, WorkersInv, NEW w \in Workers,
         wpc[w] \in {"running", "taskDone", "edges", "decrement"},
         wk[w] \in Edges, From(wk[w]) = wn[w]
  PROVE  wk[w] \in Pending(To(wk[w]))
BY GraphFacts DEF Pending, PendingEdge, WillTake, PTypeOK

-----------------------------------------------------------------------------
LEMMA GraphInit == (\A g \in Graphs : RootsLast(g)) /\ GInit => GraphInv
<1> SUFFICES ASSUME \A g \in Graphs : RootsLast(g), GInit PROVE GraphInv
  OBVIOUS
<1>1. PTypeOK
  BY DEF GInit, PTypeOK, States, IsGraph, Nodes
<1>2. WorkersInv /\ FinishedInv /\ AtMostOnce
  BY DEF GInit, WorkersInv, FinishedInv, AtMostOnce
<1>3. CountsInv /\ ReadyInv /\ ScanInv
  BY DEF GInit, CountsInv, ReadyInv, ScanInv, Untouched
<1>4. QED
  BY <1>1, <1>2, <1>3 DEF GraphInv

-----------------------------------------------------------------------------
(* The dispatcher *)

LEMMA DispatchCountStep ==
  ASSUME GraphInv, DispatchCount
  PROVE  GraphInv'
<1> USE DEF GraphInv, DispatchCount, wvars, hist, roots
<1>1. \A x : Incoming(x)' = Incoming(x) /\ Pending(x)' = Pending(x)
  BY PendingSame DEF PendingEdge, WillTake, From
<1>2. PTypeOK'
  BY PendingFinite DEF PTypeOK, Nodes
<1>3. WorkersInv' /\ FinishedInv' /\ AtMostOnce'
  BY DEF WorkersInv, FinishedInv, AtMostOnce, Edges, From, Nodes
<1>4. CountsInv'
  <2>1. \A x \in Nodes : indeg'[x] >= Cardinality(Pending(x))
    BY PendingFinite
  <2>2. \A w \in Workers : wpc[w] # "decrement"
    BY DEF ScanInv, Untouched
  <2>3. QED
    BY <1>1, <2>1, <2>2 DEF CountsInv, Nodes
<1>5. ReadyInv' /\ ScanInv'
  BY <1>1 DEF ReadyInv, ScanInv, Untouched, Nodes, To
<1>6. QED
  BY <1>2, <1>3, <1>4, <1>5

\* While a node with predecessors is ahead of the scan nothing has run, and a
\* count of zero is a root's.
LEMMA ScanFindsRoots ==
  ASSUME GraphInv, dpc = "scan", di <= graph.n
  PROVE  di \in Nodes /\ (indeg[di] = 0 => Incoming(di) = {})
<1> USE DEF GraphInv
<1>1. di \in Nodes
  BY GraphFacts DEF ScanInv, PTypeOK, Nodes
<1>2. ASSUME Incoming(di) # {} PROVE indeg[di] # 0
  <2>1. PICK k \in Incoming(di) : TRUE
    BY <1>2
  <2>2. k \in Edges /\ From(k) \in Nodes
    BY <2>1, GraphFacts DEF Incoming, Edges
  <2>3. started[From(k)] = 0
    <3>1. Untouched
      BY <1>1, <1>2 DEF ScanInv, PTypeOK
    <3>2. QED
      BY <2>2, <3>1 DEF Untouched
  <2>4. Pending(di) # {}
    BY <2>1, <2>3 DEF Pending, PendingEdge
  <2>5. QED
    BY <1>1, <2>4, PendingFinite DEF CountsInv, PTypeOK
<1>3. QED
  BY <1>1, <1>2

LEMMA ScanStep ==
  ASSUME GraphInv, ScanReady \/ ScanWaiting \/ ScanAdd \/ ScanEnd
  PROVE  GraphInv'
<1> USE DEF GraphInv, wvars, hist, roots
<1> DEFINE S == ScanReady \/ ScanWaiting \/ ScanAdd \/ ScanEnd
<1>1. /\ UNCHANGED <<graph, pool, indeg, nroots, wvars, hist>>
      /\ dpc \in {"scan", "add"} /\ dpc' \in {"scan", "add", "done"} /\ di' \in Nat
  BY DEF ScanReady, ScanWaiting, ScanAdd, ScanEnd, PTypeOK
<1>2. \A x : Incoming(x)' = Incoming(x) /\ Pending(x)' = Pending(x)
  BY <1>1, PendingSame DEF PendingEdge, WillTake, From
<1>3. WorkersInv' /\ FinishedInv' /\ CountsInv'
  <2>1. WorkersInv'
    BY <1>1 DEF WorkersInv, Edges, From, Nodes
  <2>2. FinishedInv'
    BY <1>1 DEF FinishedInv, Nodes
  <2>3. CountsInv'
    BY <1>1, <1>2 DEF CountsInv, Nodes, To
  <2>4. QED
    BY <2>1, <2>2, <2>3
<1>4. CASE ScanReady
  <2>1. di \in Nodes /\ Incoming(di) = {} /\ Pending(di) = {}
    BY <1>4, ScanFindsRoots DEF ScanReady, Pending
  <2>2. started[di] + jobs[di] = 0
    BY <1>4, <2>1, GraphFacts DEF ScanReady, ScanInv, PTypeOK
  <2>3. /\ jobs' = [jobs EXCEPT ![di] = @ + 1] /\ jobs' \in [Nodes -> Nat]
        /\ dpc = "scan" /\ dpc' = "add" /\ di' = di
    BY <1>4, <2>1 DEF ScanReady, Enqueue, PTypeOK
  <2>4. PTypeOK' /\ AtMostOnce'
    <3>1. PTypeOK'
      BY <1>1, <2>3 DEF PTypeOK, Nodes
    <3>2. AtMostOnce'
      BY <1>1, <2>1, <2>2, <2>3 DEF PTypeOK, AtMostOnce, Nodes
    <3>3. QED
      BY <3>1, <3>2
  <2>5. ReadyInv'
    <3>1. \A w \in Workers : wpc[w] = "enqueue" => To(wk[w]) # di
      BY <2>1, GraphFacts DEF WorkersInv
    <3>2. \A w \in Workers : wpc[w] = "enqueue" => To(wk[w]) \in Nodes
      BY GraphFacts DEF WorkersInv
    <3>3. QED
      BY <1>1, <1>2, <2>1, <2>3, <3>1, <3>2 DEF ReadyInv, Nodes, To, PTypeOK
  <2>6. ScanInv'
    BY <1>1, <1>2, <2>1, <2>3, GraphFacts DEF ScanInv, Nodes, PTypeOK
  <2>7. QED
    BY <1>3, <2>4, <2>5, <2>6
<1>5. CASE ScanWaiting \/ ScanAdd \/ ScanEnd
  <2>1. jobs' = jobs
    BY <1>5 DEF ScanWaiting, ScanAdd, ScanEnd
  <2>2. PTypeOK' /\ AtMostOnce'
    BY <1>1, <2>1 DEF PTypeOK, AtMostOnce, Nodes
  <2>3. ReadyInv'
    BY <1>1, <1>2, <2>1 DEF ReadyInv, Nodes, To
  <2>4. ScanInv'
    <3>1. CASE ScanWaiting
      BY <1>1, <1>2, <2>1, <3>1, GraphFacts DEF ScanWaiting, ScanInv, Untouched, Nodes, PTypeOK
    <3>2. CASE ScanAdd
      <4>1. ~\E y \in Nodes : y >= di + 1 /\ Incoming(y) # {}
        <5>1. dpc = "add" /\ di \in Nodes /\ Incoming(di) = {}
          BY <3>2 DEF ScanAdd, ScanInv
        <5>2. ASSUME NEW y \in Nodes, Incoming(y) # {} PROVE y < di
          BY <5>1, <5>2 DEF PTypeOK, RootsLast, Incoming, To, Nodes
        <5>3. QED
          BY <5>1, <5>2, GraphFacts DEF Nodes
      <4>2. QED
        BY <1>1, <1>2, <2>1, <3>2, <4>1, GraphFacts DEF ScanAdd, ScanInv, Nodes, PTypeOK
    <3>3. CASE ScanEnd
      BY <3>3 DEF ScanEnd, ScanInv
    <3>4. QED
      BY <1>5, <3>1, <3>2, <3>3
  <2>5. QED
    BY <1>3, <2>2, <2>3, <2>4
<1>6. QED
  BY <1>4, <1>5

-----------------------------------------------------------------------------
(* The workers *)

\* A step that takes no edge off a count keeps what is said of counts and jobs.
LEMMA QuietStep ==
  ASSUME GraphInv, PTypeOK', NEW w \in Workers,
         UNCHANGED <<graph, pool, indeg, jobs, started, dvars, wn>>,
         wpc' = [wpc EXCEPT ![w] = wpc'[w]],
         wk' = [wk EXCEPT ![w] = wk'[w]],
         wv' = [wv EXCEPT ![w] = wv'[w]],
         wpc[w] # "idle", wpc'[w] # "enqueue",
         wpc'[w] = "decrement" =>
           wpc[w] # "decrement" /\ wk'[w] = wk[w] /\ wk[w] \in Edges /\ wv'[w] = indeg[To(wk[w])],
         \A k \in Edges : From(k) = wn[w] => (WillTake(w, k)' <=> WillTake(w, k))
  PROVE  CountsInv' /\ ReadyInv' /\ ScanInv' /\ AtMostOnce'
<1> USE DEF GraphInv, dvars
<1>1. \A x : Incoming(x)' = Incoming(x) /\ Pending(x)' = Pending(x)
  <2>1. \A u \in Workers : u # w =>
          wpc'[u] = wpc[u] /\ wk'[u] = wk[u] /\ wv'[u] = wv[u]
    BY DEF PTypeOK
  <2>2. ASSUME NEW k \in Edges PROVE PendingEdge(k)' <=> PendingEdge(k)
    <3>1. \A u \in Workers : wn[u] = From(k) => (WillTake(u, k)' <=> WillTake(u, k))
      BY <2>1 DEF WillTake
    <3>2. QED
      BY <3>1 DEF PendingEdge, From
  <2>3. QED
    BY <2>2, PendingSame
<1>2. CountsInv'
  <2>1. \A x \in Nodes : dpc # "begin" => indeg[x] >= Cardinality(Pending(x))
    BY DEF CountsInv
  <2>2. ASSUME NEW u \in Workers, wpc'[u] = "decrement", dpc # "begin"
        PROVE  wv'[u] >= Cardinality(Pending(To(wk'[u])))
    <3>1. CASE u = w
      BY <2>1, <2>2, <3>1, GraphFacts
    <3>2. CASE u # w
      BY <2>2, <3>2 DEF CountsInv, PTypeOK
    <3>3. QED
      BY <3>1, <3>2
  <2>3. QED
    BY <1>1, <2>1, <2>2 DEF CountsInv, Nodes, To
<1>3. ReadyInv'
  <2>1. \A u \in Workers : wpc'[u] = "enqueue" => u # w /\ wpc[u] = "enqueue" /\ wk'[u] = wk[u]
    BY DEF PTypeOK
  <2>2. QED
    BY <1>1, <2>1 DEF ReadyInv, Nodes, To
<1>4. ScanInv' /\ AtMostOnce'
  <2>1. ~Untouched
    BY DEF Untouched
  <2>2. QED
    BY <1>1, <2>1 DEF ScanInv, AtMostOnce, Nodes
<1>5. QED
  BY <1>2, <1>3, <1>4

LEMMA ReturnStep ==
  ASSUME GraphInv, NEW w \in Workers, Return(w)
  PROVE  GraphInv'
<1> USE DEF GraphInv, Return, Goto, roots
<1>1. PTypeOK'
  <2>1. wn[w] \in Nodes /\ "taskDone" \in States
    BY DEF WorkersInv, States
  <2>2. finished' \in [Nodes -> Nat] /\ wpc' \in [Workers -> States]
    BY <2>1 DEF PTypeOK
  <2>3. QED
    BY <2>2 DEF PTypeOK, Nodes, dvars
<1>2. CountsInv' /\ ReadyInv' /\ ScanInv' /\ AtMostOnce'
  <2>1. /\ wpc'[w] = "taskDone" /\ wpc[w] = "running" /\ wk' = wk /\ wv' = wv
        /\ wpc' = [wpc EXCEPT ![w] = wpc'[w]]
        /\ wk' = [wk EXCEPT ![w] = wk'[w]] /\ wv' = [wv EXCEPT ![w] = wv'[w]]
    BY DEF PTypeOK
  <2>2. \A k \in Edges : WillTake(w, k)' <=> WillTake(w, k)
    BY <2>1 DEF WillTake
  <2>3. QED
    BY <1>1, <2>1, <2>2, QuietStep DEF PTypeOK
<1>3. WorkersInv'
  BY DEF WorkersInv, PTypeOK, Edges, From, Nodes
<1>4. FinishedInv'
  <2>1. wn[w] \in Nodes /\ started[wn[w]] = 1 /\ finished[wn[w]] = 0
    BY DEF WorkersInv, FinishedInv
  <2>2. \A u \in Workers : wpc[u] = "running" /\ wn[u] = wn[w] => u = w
    BY DEF WorkersInv
  <2>3. QED
    BY <2>1, <2>2 DEF FinishedInv, PTypeOK, Nodes
<1>5. QED
  BY <1>1, <1>2, <1>3, <1>4

\* The steps that change no count, job or history and start no decrement.
LEMMA PassStep ==
  ASSUME GraphInv, NEW w \in Workers,
         CountDone(w) \/ SkipEdge(w) \/ AddSuccessor(w) \/ EndEdges(w)
           \/ WriteSlot(w) \/ BumpRoots(w)
  PROVE  GraphInv'
<1> USE DEF GraphInv, Goto, roots, dvars, hist
<1>1. /\ UNCHANGED <<graph, pool, indeg, jobs, started, finished, dvars, wn>>
      /\ wpc' = [wpc EXCEPT ![w] = wpc'[w]]
      /\ wk' = [wk EXCEPT ![w] = wk'[w]] /\ wk'[w] \in Nat /\ wk'[w] >= wk[w]
      /\ wv' = [wv EXCEPT ![w] = wv'[w]] /\ wv'[w] \in Nat /\ nroots' \in Nat
      /\ wpc[w] \notin {"idle", "running"}
      /\ wpc'[w] \in {"edges", "slot", "bump", "idle"}
      /\ wpc[w] = "taskDone" => wk'[w] = wk[w]
  BY DEF PTypeOK, CountDone, SkipEdge, AddSuccessor, EndEdges, WriteSlot, BumpRoots, RootsCount
<1>2. PTypeOK'
  <2>1. wpc' \in [Workers -> States]
    BY <1>1 DEF PTypeOK, States
  <2>2. wk' \in [Workers -> Nat] /\ wv' \in [Workers -> Nat]
    BY <1>1 DEF PTypeOK
  <2>3. QED
    BY <1>1, <2>1, <2>2 DEF PTypeOK, Nodes
<1>3. WorkersInv' /\ FinishedInv'
  <2>1. \A u \in Workers : u # w => wpc'[u] = wpc[u] /\ wk'[u] = wk[u] /\ wv'[u] = wv[u]
    BY <1>1 DEF PTypeOK
  <2>2. WorkersInv'
    <3>1. wk[w] \in Nat /\ wk[w] >= 1 /\ wn[w] \in Nodes /\ started[wn[w]] = 1
      BY <1>1 DEF WorkersInv, PTypeOK
    <3>2. \A u \in Workers : wpc'[u] # "idle" => wpc[u] # "idle"
      BY <1>1, <2>1
    <3>3. QED
      BY <1>1, <2>1, <3>1, <3>2 DEF WorkersInv, Edges, From, Nodes
  <2>3. FinishedInv'
    BY <1>1, <2>1 DEF FinishedInv, Nodes
  <2>4. QED
    BY <2>2, <2>3
<1>4. \A k \in Edges : From(k) = wn[w] => (WillTake(w, k)' <=> WillTake(w, k))
  <2> SUFFICES ASSUME NEW k \in Edges, From(k) = wn[w]
               PROVE  WillTake(w, k)' <=> WillTake(w, k)
    OBVIOUS
  <2>1. k \in 1..Len(graph.edges) /\ Len(graph.edges) \in Nat /\ wk[w] \in Nat
    BY GraphFacts DEF PTypeOK
  <2>2. CASE CountDone(w)
    BY <2>1, <2>2 DEF CountDone, WillTake, PTypeOK
  <2>3. CASE SkipEdge(w)
    <3>1. wpc[w] = "edges" /\ wk'[w] = wk[w] + 1 /\ wpc'[w] = "edges"
      BY <2>3 DEF SkipEdge, PTypeOK
    <3>2. wk[w] # k
      <4>1. SUFFICES ASSUME wk[w] = k PROVE FALSE
        OBVIOUS
      <4>2. To(k) \in Nodes /\ k \in Pending(To(k))
        BY <3>1, <4>1, OwnEdgePending, GraphFacts
      <4>3. indeg[To(k)] = 0
        BY <2>3, <4>1 DEF SkipEdge
      <4>4. dpc # "begin"
        BY <3>1 DEF ScanInv, Untouched
      <4>5. QED
        BY <4>2, <4>3, <4>4, PendingFinite DEF CountsInv
    <3>3. QED
      BY <2>1, <3>1, <3>2 DEF WillTake
  <2>4. CASE AddSuccessor(w)
    <3>1. wpc[w] = "addTask" /\ wk'[w] = wk[w] + 1 /\ wpc'[w] = "edges"
      BY <2>4 DEF AddSuccessor, PTypeOK
    <3>2. QED
      BY <2>1, <3>1 DEF WillTake
  <2>5. CASE EndEdges(w)
    <3>1. wk[w] > Len(graph.edges) /\ wpc[w] = "edges" /\ wpc'[w] \in {"slot", "idle"}
      BY <2>5 DEF EndEdges, PTypeOK
    <3>2. QED
      BY <2>1, <3>1 DEF WillTake
  <2>6. CASE WriteSlot(w) \/ BumpRoots(w)
    <3>1. wpc[w] \in {"slot", "bump"} /\ wpc'[w] \in {"bump", "idle"}
      BY <2>6 DEF WriteSlot, BumpRoots, PTypeOK
    <3>2. QED
      BY <3>1 DEF WillTake
  <2>7. QED
    BY <2>2, <2>3, <2>4, <2>5, <2>6
<1>5. CountsInv' /\ ReadyInv' /\ ScanInv' /\ AtMostOnce'
  BY <1>1, <1>2, <1>4, QuietStep
<1>6. QED
  BY <1>2, <1>3, <1>5

LEMMA ReadCountStep ==
  ASSUME GraphInv, NEW w \in Workers, ReadCount(w)
  PROVE  GraphInv'
<1> USE DEF GraphInv, ReadCount, Goto, roots, hist
<1>1. /\ wpc[w] = "edges" /\ wpc'[w] = "decrement" /\ wk' = wk
      /\ wk[w] \in Edges /\ From(wk[w]) = wn[w]
      /\ To(wk[w]) \in Nodes /\ indeg[To(wk[w])] \in Nat \ {0}
      /\ wv'[w] = indeg[To(wk[w])]
  <2>1. wk[w] \in Edges
    <3>1. wpc[w] = "edges" /\ wk[w] <= Len(graph.edges) /\ wk[w] \in Nat
      BY DEF PTypeOK
    <3>2. wk[w] >= 1
      BY <3>1 DEF WorkersInv
    <3>3. QED
      BY <3>1, <3>2, GraphFacts
  <2>2. To(wk[w]) \in Nodes
    BY <2>1, GraphFacts
  <2>3. QED
    BY <2>1, <2>2 DEF PTypeOK
<1>2. PTypeOK'
  <2>1. wpc' \in [Workers -> States] /\ wv' \in [Workers -> Nat]
    BY <1>1 DEF PTypeOK, States
  <2>2. QED
    BY <2>1 DEF PTypeOK, Nodes, dvars
<1>3. WorkersInv' /\ FinishedInv'
  <2>1. \A u \in Workers : u # w => wpc'[u] = wpc[u] /\ wv'[u] = wv[u]
    BY DEF PTypeOK
  <2>2. wn[w] \in Nodes /\ started[wn[w]] = 1 /\ wk[w] >= 1
    BY <1>1 DEF WorkersInv
  <2>3. UNCHANGED <<graph, started, finished, wn, wk>>
    OBVIOUS
  <2>4. WorkersInv'
    BY <1>1, <2>1, <2>2, <2>3 DEF WorkersInv, Edges, From, Nodes
  <2>5. FinishedInv'
    BY <1>1, <2>1, <2>3 DEF FinishedInv, Nodes
  <2>6. QED
    BY <2>4, <2>5
<1>4. \A k \in Edges : WillTake(w, k)' <=> WillTake(w, k)
  BY <1>1 DEF WillTake
<1>5. CountsInv' /\ ReadyInv' /\ ScanInv' /\ AtMostOnce'
  <2>1. /\ wpc' = [wpc EXCEPT ![w] = wpc'[w]]
        /\ wk' = [wk EXCEPT ![w] = wk'[w]] /\ wv' = [wv EXCEPT ![w] = wv'[w]]
    BY DEF PTypeOK
  <2>2. QED
    BY <1>1, <1>2, <1>4, <2>1, QuietStep DEF dvars
<1>6. QED
  BY <1>2, <1>3, <1>5

\* The read and the write of a count are apart, but what is written is the
\* number that was read, less one, and the edge is taken off with it.
LEMMA DecrementStep ==
  ASSUME GraphInv, NEW w \in Workers, Decrement(w)
  PROVE  GraphInv'
<1> USE DEF GraphInv, roots, hist, dvars
<1> DEFINE e == wk[w]
           x == To(wk[w])
<1>1. /\ wpc[w] = "decrement" /\ e \in Edges /\ From(e) = wn[w] /\ wv[w] >= 1
      /\ wv[w] \in Nat /\ e \in Nat /\ x \in Nodes /\ e \in Pending(x) /\ wn[w] \in Nodes
      /\ started[wn[w]] = 1 /\ e >= 1
  <2>1. /\ wpc[w] = "decrement" /\ e \in Edges /\ From(e) = wn[w] /\ wv[w] >= 1
        /\ wn[w] \in Nodes /\ started[wn[w]] = 1 /\ e >= 1
    BY DEF Decrement, Goto, WorkersInv
  <2>2. wv[w] \in Nat /\ e \in Nat
    BY DEF PTypeOK
  <2>3. QED
    BY <2>1, <2>2, GraphFacts, OwnEdgePending
<1>2. /\ UNCHANGED <<graph, pool, jobs, started, finished, nroots, dvars, wn, wv>>
      /\ indeg' = [indeg EXCEPT ![x] = wv[w] - 1]
      /\ wpc' = [wpc EXCEPT ![w] = wpc'[w]] /\ wk' = [wk EXCEPT ![w] = wk'[w]]
      /\ \/ wv[w] = 1 /\ wpc'[w] = "enqueue" /\ wk'[w] = e
         \/ wv[w] # 1 /\ wpc'[w] = "edges" /\ wk'[w] = e + 1
  BY DEF Decrement, Goto, PTypeOK
<1>3. \A u \in Workers : u # w => wpc'[u] = wpc[u] /\ wk'[u] = wk[u]
  BY <1>2 DEF PTypeOK
<1>4. PTypeOK'
  <2>1. wpc' \in [Workers -> States] /\ wk' \in [Workers -> Nat]
    BY <1>1, <1>2 DEF PTypeOK, States
  <2>2. indeg' \in [Nodes -> Nat]
    BY <1>1, <1>2 DEF PTypeOK
  <2>3. QED
    BY <1>2, <2>1, <2>2 DEF PTypeOK, Nodes
<1>5. WorkersInv' /\ FinishedInv'
  <2>1. WorkersInv'
    BY <1>1, <1>2, <1>3 DEF WorkersInv, Edges, From, Nodes
  <2>2. FinishedInv'
    BY <1>1, <1>2, <1>3 DEF FinishedInv, Nodes
  <2>3. QED
    BY <2>1, <2>2
<1>6. ASSUME NEW k \in Edges PROVE PendingEdge(k)' <=> PendingEdge(k) /\ k # e
  <2>1. From(k)' = From(k) /\ From(k) \in Nodes /\ k \in Nat
    BY <1>2, GraphFacts DEF From
  <2>2. WillTake(w, k)' <=> WillTake(w, k) /\ k # e
    BY <1>1, <1>2, <2>1 DEF WillTake
  <2>3. \A u \in Workers : u # w => (WillTake(u, k)' <=> WillTake(u, k))
    BY <1>2, <1>3 DEF WillTake
  <2>4. CASE k = e
    <3>1. \A u \in Workers : u # w /\ wn[u] = wn[w] => wpc[u] = "idle"
      BY <1>1 DEF WorkersInv
    <3>2. \A u \in Workers : u # w /\ wn[u] = From(k) => ~WillTake(u, k)'
      BY <1>1, <2>3, <2>4, <3>1 DEF WillTake
    <3>3. ~PendingEdge(k)'
      BY <1>1, <1>2, <2>1, <2>2, <2>4, <3>2 DEF PendingEdge
    <3>4. QED
      BY <2>4, <3>3
  <2>5. CASE k # e
    BY <1>2, <2>1, <2>2, <2>3, <2>5 DEF PendingEdge
  <2>6. QED
    BY <2>4, <2>5
<1>7. \A y : Incoming(y)' = Incoming(y) /\ Pending(y)' = Pending(y) \ {e}
  <2>1. \A y : Incoming(y)' = Incoming(y) /\ Incoming(y) \subseteq Edges
    BY <1>2 DEF Incoming, Edges, To
  <2>2. ASSUME NEW y PROVE Pending(y)' = Pending(y) \ {e}
    BY <1>6, <2>1 DEF Pending
  <2>3. QED
    BY <2>1, <2>2
<1>8. /\ Cardinality(Pending(x) \ {e}) = Cardinality(Pending(x)) - 1
      /\ \A y : y # x => Cardinality(Pending(y) \ {e}) = Cardinality(Pending(y))
  <2>1. Cardinality(Pending(x) \ {e}) = Cardinality(Pending(x)) - 1
    <3>1. PICK P : P = Pending(x)
      OBVIOUS
    <3>2. IsFiniteSet(P) /\ e \in P
      BY <1>1, <3>1, PendingFinite
    <3>3. Cardinality(P \ {e}) = Cardinality(P) - 1
      BY <3>2, FS_RemoveElement
    <3>4. QED
      BY <3>1, <3>3
  <2>2. ASSUME NEW y, y # x
        PROVE  Cardinality(Pending(y) \ {e}) = Cardinality(Pending(y))
    <3>1. e \notin Pending(y)
      BY <2>2 DEF Pending, Incoming
    <3>2. Pending(y) \ {e} = Pending(y)
      BY <3>1
    <3>3. QED
      BY <3>2, Zenon
  <2>3. QED
    BY <2>1, <2>2
<1>9. dpc # "begin" /\ ~Untouched
  BY <1>1 DEF ScanInv, Untouched
<1>10. /\ wv[w] >= Cardinality(Pending(x)) /\ Cardinality(Pending(x)) \in Nat
       /\ \A y : Cardinality(Pending(y)) \in Nat
       /\ \A y : /\ Cardinality(Pending(y) \ {e}) \in Nat
                 /\ Cardinality(Pending(y) \ {e}) <= Cardinality(Pending(y))
  <2>1. wv[w] >= Cardinality(Pending(x)) /\ \A y : Cardinality(Pending(y)) \in Nat
    BY <1>1, <1>9, PendingFinite DEF CountsInv
  <2>2. ASSUME NEW y
        PROVE  /\ Cardinality(Pending(y) \ {e}) \in Nat
               /\ Cardinality(Pending(y) \ {e}) <= Cardinality(Pending(y))
    <3> Cardinality(Pending(y) \ {e}) \in Nat
      BY PendingFinite, FS_Subset, FS_CardinalityType
    <3>1. CASE y = x
      BY <1>8, <2>1, <3>1
    <3>2. CASE y # x
      BY <1>8, <2>1, <3>2
    <3>3. QED
      BY <3>1, <3>2
  <2>3. QED
    BY <2>1, <2>2
<1>11. CountsInv'
  <2>1. ASSUME NEW y \in Nodes PROVE indeg'[y] >= Cardinality(Pending(y) \ {e})
    <3>1. indeg[y] >= Cardinality(Pending(y)) /\ indeg[y] \in Nat
      BY <1>9 DEF CountsInv, PTypeOK
    <3>2. CASE y = x
      BY <1>1, <1>2, <1>8, <1>10, <3>2 DEF PTypeOK
    <3>3. CASE y # x
      BY <1>2, <1>8, <3>1, <3>3 DEF PTypeOK
    <3>4. QED
      BY <3>2, <3>3
  <2>2. ASSUME NEW u \in Workers, wpc'[u] = "decrement"
        PROVE  wv'[u] >= Cardinality(Pending(To(wk[u])) \ {e}) /\ wk'[u] = wk[u]
    <3>1. u # w /\ wpc[u] = "decrement" /\ wk'[u] = wk[u] /\ wv'[u] = wv[u] /\ wv[u] \in Nat
      BY <1>2, <1>3, <2>2 DEF PTypeOK
    <3>2. wv[u] >= Cardinality(Pending(To(wk[u])))
      BY <1>9, <3>1 DEF CountsInv
    <3>3. QED
      BY <1>10, <3>1, <3>2
  <2>3. \A i : To(i)' = To(i)
    BY <1>2 DEF To
  <2>4. QED
    BY <1>2, <1>7, <2>1, <2>2, <2>3 DEF CountsInv, Nodes
<1>12. ReadyInv'
  <2>1. \A y \in Nodes : started[y] + jobs[y] > 0 => Pending(y)' = {}
    BY <1>7 DEF ReadyInv
  <2>2. started[x] + jobs[x] = 0
    <3>1. started[x] \in Nat /\ jobs[x] \in Nat
      BY <1>1 DEF PTypeOK
    <3>2. ~(started[x] + jobs[x] > 0)
      BY <1>1 DEF ReadyInv
    <3>3. QED
      BY <3>1, <3>2
  <2>3. \A u \in Workers : u # w /\ wpc[u] = "enqueue" => To(wk[u]) # x
    BY <1>1 DEF ReadyInv
  <2>4. wpc'[w] = "enqueue" => Pending(x) \ {e} = {} /\ wk'[w] = wk[w]
    <3>1. SUFFICES ASSUME wpc'[w] = "enqueue" PROVE Pending(x) \ {e} = {}
      BY <1>2
    <3>2. Cardinality(Pending(x) \ {e}) = 0
      BY <1>1, <1>2, <1>8, <1>10, PendingFinite, <3>1
    <3>3. IsFiniteSet(Pending(x) \ {e})
      BY PendingFinite, FS_Subset
    <3>4. QED
      BY <3>2, <3>3, FS_EmptySet
  <2>5. ASSUME NEW u \in Workers, wpc'[u] = "enqueue"
        PROVE  /\ wk'[u] = wk[u] /\ Pending(To(wk[u])) \ {e} = {}
               /\ started[To(wk[u])] + jobs[To(wk[u])] = 0
    <3>1. CASE u = w
      BY <2>2, <2>4, <2>5, <3>1
    <3>2. CASE u # w
      BY <1>3, <2>5, <3>2 DEF ReadyInv
    <3>3. QED
      BY <3>1, <3>2
  <2>6. ASSUME NEW u \in Workers, NEW v \in Workers,
               wpc'[u] = "enqueue", wpc'[v] = "enqueue", To(wk[u]) = To(wk[v])
        PROVE  u = v
    BY <1>3, <2>3, <2>6 DEF ReadyInv
  <2>7. \A i : To(i)' = To(i)
    BY <1>2 DEF To
  <2>8. QED
    BY <1>2, <1>7, <2>1, <2>5, <2>6, <2>7 DEF ReadyInv, Nodes
<1>13. ScanInv' /\ AtMostOnce'
  BY <1>2, <1>7, <1>9 DEF ScanInv, AtMostOnce, Nodes
<1>14. QED
  BY <1>4, <1>5, <1>11, <1>12, <1>13

LEMMA EnqueueSuccessorStep ==
  ASSUME GraphInv, NEW w \in Workers, EnqueueSuccessor(w)
  PROVE  GraphInv'
<1> USE DEF GraphInv, roots, hist, dvars
<1> DEFINE x == To(wk[w])
<1>1. /\ wpc[w] = "enqueue" /\ wk[w] \in Edges /\ x \in Nodes
      /\ Pending(x) = {} /\ started[x] = 0 /\ jobs[x] = 0 /\ Incoming(x) # {}
  <2>1. wpc[w] = "enqueue" /\ wk[w] \in Edges
    BY DEF EnqueueSuccessor, Goto, WorkersInv
  <2>2. x \in Nodes /\ Incoming(x) # {}
    BY <2>1, GraphFacts
  <2>3. QED
    BY <2>1, <2>2 DEF ReadyInv, PTypeOK
<1>2. /\ UNCHANGED <<graph, pool, indeg, started, finished, nroots, dvars, wn, wk, wv>>
      /\ wpc' = [wpc EXCEPT ![w] = "addTask"] /\ jobs' = [jobs EXCEPT ![x] = 1]
  BY <1>1 DEF EnqueueSuccessor, Enqueue, Goto, PTypeOK
<1>3. PTypeOK'
  <2>1. wpc' \in [Workers -> States] /\ jobs' \in [Nodes -> Nat]
    BY <1>1, <1>2 DEF PTypeOK, States
  <2>2. QED
    BY <1>2, <2>1 DEF PTypeOK, Nodes
<1>4. \A y : Incoming(y)' = Incoming(y) /\ Pending(y)' = Pending(y)
  <2>1. \A k \in Edges : PendingEdge(k)' <=> PendingEdge(k)
    BY <1>1, <1>2 DEF PendingEdge, WillTake, From, PTypeOK
  <2>2. QED
    BY <1>2, <2>1, PendingSame
<1>5. WorkersInv' /\ FinishedInv'
  <2>1. wpc'[w] = "addTask" /\ \A u \in Workers : u # w => wpc'[u] = wpc[u]
    BY <1>2 DEF PTypeOK
  <2>2. From(wk[w]) = wn[w] /\ wn[w] \in Nodes /\ started[wn[w]] = 1 /\ wk[w] >= 1
    BY <1>1 DEF WorkersInv
  <2>3. WorkersInv'
    BY <1>1, <1>2, <2>1, <2>2 DEF WorkersInv, Edges, From, Nodes
  <2>4. FinishedInv'
    BY <1>1, <1>2, <2>1 DEF FinishedInv, Nodes
  <2>5. QED
    BY <2>3, <2>4
<1>6. CountsInv'
  BY <1>1, <1>2, <1>4 DEF CountsInv, PTypeOK, Nodes, To
<1>7. ReadyInv' /\ AtMostOnce'
  <2>1. \A u \in Workers : wpc'[u] = "enqueue" => u # w /\ wpc[u] = "enqueue" /\ To(wk[u]) # x
    BY <1>1, <1>2 DEF ReadyInv, PTypeOK
  <2>2. \A y \in Nodes : jobs'[y] = IF y = x THEN 1 ELSE jobs[y]
    BY <1>2 DEF PTypeOK
  <2>3. \A u \in Workers : wpc'[u] = "enqueue" => To(wk[u]) \in Nodes
    BY <2>1, GraphFacts DEF WorkersInv
  <2>4. \A i : To(i)' = To(i)
    BY <1>2 DEF To
  <2>5. ReadyInv'
    BY <1>1, <1>2, <1>4, <2>1, <2>2, <2>3, <2>4 DEF ReadyInv, Nodes
  <2>6. AtMostOnce'
    BY <1>1, <1>2, <2>2 DEF AtMostOnce, Nodes
  <2>7. QED
    BY <2>5, <2>6
<1>8. ScanInv'
  <2>1. ~Untouched
    BY <1>1 DEF Untouched
  <2>2. \A y \in Nodes : Incoming(y) = {} => jobs'[y] = jobs[y]
    BY <1>1, <1>2 DEF PTypeOK
  <2>3. QED
    BY <1>2, <1>4, <2>1, <2>2 DEF ScanInv, Nodes
<1>9. QED
  BY <1>3, <1>5, <1>6, <1>7, <1>8

LEMMA RunNodeStep ==
  ASSUME GraphInv, NEW w \in Workers, NEW x \in Nodes, RunNode(w, x)
  PROVE  GraphInv'
<1> USE DEF GraphInv, roots, hist, dvars
<1>1. wpc[w] = "idle" /\ jobs[x] = 1 /\ started[x] = 0 /\ finished[x] = 0 /\ Pending(x) = {}
  <2>1. wpc[w] = "idle" /\ jobs[x] = 1 /\ started[x] = 0
    <3>1. wpc[w] = "idle" /\ jobs[x] > 0
      BY DEF RunNode, Goto
    <3>2. started[x] \in Nat /\ jobs[x] \in Nat /\ started[x] + jobs[x] <= 1
      BY DEF AtMostOnce, PTypeOK
    <3>3. QED
      BY <3>1, <3>2
  <2>2. QED
    BY <2>1 DEF FinishedInv, ReadyInv, PTypeOK
<1>2. /\ UNCHANGED <<graph, pool, indeg, finished, nroots, dvars, wv>>
      /\ wpc' = [wpc EXCEPT ![w] = "running"] /\ wn' = [wn EXCEPT ![w] = x]
      /\ wk' = [wk EXCEPT ![w] = 1]
      /\ jobs' = [jobs EXCEPT ![x] = 0] /\ started' = [started EXCEPT ![x] = 1]
  BY <1>1 DEF RunNode, Goto, PTypeOK
<1>3. \A u \in Workers : u # w => wpc'[u] = wpc[u] /\ wn'[u] = wn[u] /\ wk'[u] = wk[u]
  BY <1>2 DEF PTypeOK
<1>4. /\ wpc'[w] = "running" /\ wn'[w] = x /\ wk'[w] = 1 /\ started'[x] = 1 /\ jobs'[x] = 0
      /\ \A y \in Nodes : y # x => started'[y] = started[y] /\ jobs'[y] = jobs[y]
  BY <1>2 DEF PTypeOK
<1>5. \A u \in Workers : wpc[u] # "idle" => wn[u] # x /\ u # w
  BY <1>1 DEF WorkersInv
<1>6. PTypeOK'
  <2>1. /\ wpc' \in [Workers -> States] /\ wn' \in [Workers -> Nat] /\ wk' \in [Workers -> Nat]
        /\ jobs' \in [Nodes -> Nat] /\ started' \in [Nodes -> Nat]
    BY <1>2, GraphFacts DEF PTypeOK, States, Nodes
  <2>2. QED
    BY <1>2, <2>1 DEF PTypeOK, Nodes
<1>7. \A y : Incoming(y)' = Incoming(y) /\ Pending(y)' = Pending(y)
  <2>1. ASSUME NEW k \in Edges PROVE PendingEdge(k)' <=> PendingEdge(k)
    <3>1. k \in Nat /\ k >= 1 /\ From(k) \in Nodes /\ From(k)' = From(k)
      BY <1>2, GraphFacts DEF From
    <3>2. ~WillTake(w, k) /\ WillTake(w, k)'
      BY <1>1, <1>4, <3>1 DEF WillTake
    <3>3. \A u \in Workers : u # w => (WillTake(u, k)' <=> WillTake(u, k))
      BY <1>3 DEF WillTake
    <3>4. CASE From(k) = x
      BY <1>1, <1>4, <3>1, <3>2, <3>4 DEF PendingEdge
    <3>5. CASE From(k) # x
      BY <1>3, <1>4, <3>1, <3>2, <3>3, <3>5 DEF PendingEdge
    <3>6. QED
      BY <3>4, <3>5
  <2>2. QED
    BY <1>2, <2>1, PendingSame
<1>8. WorkersInv'
  BY <1>2, <1>3, <1>4, <1>5 DEF WorkersInv, Edges, From, Nodes
<1>9. FinishedInv'
  <2>1. \A y \in Nodes : y # x =>
          ((\A u \in Workers : wpc'[u] = "running" => wn'[u] # y)
             <=> (\A u \in Workers : wpc[u] = "running" => wn[u] # y))
    BY <1>1, <1>3, <1>4
  <2>2. QED
    BY <1>1, <1>2, <1>4, <2>1 DEF FinishedInv, Nodes
<1>10. CountsInv' /\ ReadyInv' /\ AtMostOnce'
  <2>1. \A u \in Workers : wpc'[u] \in {"enqueue", "decrement"} =>
          u # w /\ wpc[u] = wpc'[u] /\ wk'[u] = wk[u] /\ To(wk[u]) \in Nodes
    BY <1>3, <1>4, GraphFacts DEF WorkersInv
  <2>2. \A i : To(i)' = To(i)
    BY <1>2 DEF To
  <2>3. CountsInv'
    BY <1>2, <1>7, <2>1, <2>2 DEF CountsInv, Nodes
  <2>4. ReadyInv'
    BY <1>1, <1>2, <1>4, <1>7, <2>1, <2>2 DEF ReadyInv, Nodes
  <2>5. AtMostOnce'
    BY <1>2, <1>4 DEF AtMostOnce, Nodes
  <2>6. QED
    BY <2>3, <2>4, <2>5
<1>11. ScanInv'
  <2>1. ~Untouched
    BY <1>1 DEF Untouched
  <2>2. \A y \in Nodes : started'[y] + jobs'[y] = started[y] + jobs[y]
    BY <1>1, <1>4
  <2>3. QED
    BY <1>2, <1>7, <2>1, <2>2 DEF ScanInv, Nodes
<1>12. QED
  BY <1>6, <1>8, <1>9, <1>10, <1>11

LEMMA GraphStep == GraphInv /\ [GNext]_gvars => GraphInv'
<1> SUFFICES ASSUME GraphInv, [GNext]_gvars PROVE GraphInv'
  OBVIOUS
<1>1. ASSUME NEW w \in pool, Worker(w) PROVE GraphInv'
  <2>1. w \in Workers
    BY DEF GraphInv, PTypeOK
  <2>2. QED
    BY <1>1, <2>1, RunNodeStep, ReturnStep, PassStep, ReadCountStep, DecrementStep,
       EnqueueSuccessorStep DEF Worker, Trampoline
<1>2. CASE Dispatcher
  BY <1>2, DispatchCountStep, ScanStep DEF Dispatcher
<1>3. CASE UNCHANGED seen
  <2> USE DEF seen, roots, dvars, wvars, hist
  <2>1. \A x : Incoming(x)' = Incoming(x) /\ Pending(x)' = Pending(x)
    BY <1>3 DEF Incoming, Pending, PendingEdge, WillTake, From, To
  <2>2. PTypeOK' /\ WorkersInv' /\ FinishedInv' /\ AtMostOnce'
    BY <1>3 DEF GraphInv, PTypeOK, WorkersInv, FinishedInv, AtMostOnce, Nodes, Edges, From
  <2>3. CountsInv' /\ ReadyInv' /\ ScanInv'
    BY <1>3, <2>1 DEF GraphInv, CountsInv, ReadyInv, ScanInv, Untouched, Nodes, To
  <2>4. QED
    BY <2>2, <2>3 DEF GraphInv
<1>4. QED
  BY <1>1, <1>2, <1>3, ClashUnseen DEF GNext

-----------------------------------------------------------------------------
(* What follows *)

\* A node whose edges are all taken off depends on nodes that have returned.
LEMMA PredecessorsReturned ==
  ASSUME GraphInv, NEW x \in Nodes, started[x] + jobs[x] > 0, NEW k \in Incoming(x)
  PROVE  From(k) \in Nodes /\ finished[From(k)] = 1
<1> USE DEF GraphInv
<1>1. k \in Edges /\ From(k) \in Nodes /\ k \in Nat /\ k >= 1
  BY GraphFacts DEF Incoming, Edges
<1>2. ~PendingEdge(k)
  BY DEF ReadyInv, Pending
<1>3. started[From(k)] = 1
  <2>1. started[From(k)] \in Nat /\ jobs[From(k)] \in Nat
    BY <1>1 DEF PTypeOK
  <2>2. QED
    BY <1>1, <1>2, <2>1 DEF PendingEdge, AtMostOnce
<1>4. \A w \in Workers : wpc[w] = "running" => wn[w] # From(k)
  BY <1>1, <1>2 DEF PendingEdge, WillTake, WorkersInv
<1>5. QED
  BY <1>1, <1>3, <1>4 DEF FinishedInv

(***************************************************************************)
(* When the nodes without predecessors are added last, a node begins only  *)
(* after all it depends on have returned, although the counts of dispatch  *)
(* are decremented in plain memory by several workers, for every graph.    *)
(***************************************************************************)
THEOREM RunsInOrder ==
  ASSUME \A g \in Graphs : RootsLast(g)
  PROVE  GSpec => []TopologicalOrder
<1>1. GraphInv => TopologicalOrder
  <2> SUFFICES ASSUME GraphInv PROVE TopologicalOrder
    OBVIOUS
  <2>1. ASSUME NEW x \in Nodes, started[x] + jobs[x] > 0, NEW k \in Incoming(x)
        PROVE  finished[From(k)] > 0
    BY <2>1, PredecessorsReturned
  <2>2. QED
    BY <2>1 DEF TopologicalOrder
<1>2. QED
  BY GraphInit, GraphStep, <1>1, PTL DEF GSpec

(***************************************************************************)
(* When the nodes without predecessors are added last, no node is enqueued *)
(* twice: by the scan of dispatch, by a worker, or by both.                *)
(***************************************************************************)
THEOREM RunsOnce ==
  ASSUME \A g \in Graphs : RootsLast(g)
  PROVE  GSpec => []AtMostOnce
<1>1. GraphInv => AtMostOnce
  BY DEF GraphInv
<1>2. QED
  BY GraphInit, GraphStep, <1>1, PTL DEF GSpec

\* A node's function begins and returns as TaskOrder allows; nothing else of
\* the execution is visible there.
LEMMA OrderStepHolds ==
  GraphInv /\ [GNext]_gvars => [Order!Next]_(Order!vars)
<1> SUFFICES ASSUME GraphInv, [GNext]_gvars PROVE [Order!Next]_(Order!vars)
  OBVIOUS
<1> USE DEF GraphInv, hist
<1>1. ASSUME NEW w \in Workers, NEW x \in Nodes, RunNode(w, x)
      PROVE  Order!Start(x)
  <2>1. started[x] = 0 /\ started[x] + jobs[x] > 0 /\ started' = [started EXCEPT ![x] = 1]
    <3>1. jobs[x] > 0 /\ started' = [started EXCEPT ![x] = started[x] + 1]
      BY <1>1 DEF RunNode
    <3>2. started[x] \in Nat /\ jobs[x] \in Nat /\ started[x] + jobs[x] <= 1
      BY DEF AtMostOnce, PTypeOK
    <3>3. started[x] = 0
      BY <3>1, <3>2
    <3>4. QED
      BY <3>1, <3>2, <3>3
  <2>2. ASSUME NEW k \in DOMAIN graph.edges, graph.edges[k][2] = x
        PROVE  finished[graph.edges[k][1]] = 1
    <3>1. k \in Incoming(x)
      BY <2>2 DEF Incoming, To
    <3>2. QED
      BY <2>1, <3>1, PredecessorsReturned DEF From
  <2>3. UNCHANGED <<graph, finished>>
    BY <1>1 DEF RunNode
  <2>4. QED
    BY <2>1, <2>2, <2>3 DEF Order!Start
<1>2. ASSUME NEW w \in Workers, Return(w)
      PROVE  wn[w] \in Nodes /\ Order!Finish(wn[w])
  <2>1. wn[w] \in Nodes /\ started[wn[w]] = 1 /\ finished[wn[w]] = 0
    BY <1>2 DEF Return, Goto, WorkersInv, FinishedInv
  <2>2. finished' = [finished EXCEPT ![wn[w]] = 1] /\ UNCHANGED <<graph, started>>
    BY <1>2, <2>1 DEF Return
  <2>3. QED
    BY <2>1, <2>2 DEF Order!Finish
<1>3. ASSUME NEW w \in Workers, Trampoline(w), ~Return(w)
      PROVE  UNCHANGED <<graph, started, finished>>
  BY <1>3 DEF Trampoline, CountDone, SkipEdge, ReadCount, Decrement, EnqueueSuccessor,
              AddSuccessor, EndEdges, WriteSlot, BumpRoots
<1>4. CASE Dispatcher \/ UNCHANGED seen
  BY <1>4 DEF Dispatcher, DispatchCount, ScanReady, ScanWaiting, ScanAdd, ScanEnd, seen, Order!vars
<1>5. CASE \E w \in pool : Worker(w)
  <2>1. PICK w \in Workers : Worker(w)
    BY <1>5 DEF PTypeOK
  <2>2. QED
    BY <1>1, <1>2, <1>3, <2>1 DEF Worker, Nodes, Order!Next, Order!vars
<1>6. QED
  BY <1>4, <1>5, ClashUnseen DEF GNext

(***************************************************************************)
(* The parallel execution of a graph whose nodes without predecessors are  *)
(* added last implements TaskOrder.                                        *)
(***************************************************************************)
THEOREM ExecutionImplementsOrder ==
  ASSUME \A g \in Graphs : RootsLast(g)
  PROVE  GSpec => ImplementsOrder
<1>1. GInit => Order!Init
  BY DEF GInit, Order!Init, Nodes
<1>2. QED
  BY <1>1, GraphInit, GraphStep, OrderStepHolds, PTL DEF GSpec, ImplementsOrder, Order!Spec

-----------------------------------------------------------------------------
(* The task group's count.  It is wrapped, so the steps are compared with  *)
(* the balance modulo its width.                                           *)

LEMMA RemainderUnique ==
  ASSUME NEW q \in Int, NEW r \in 0..CounterMod-1
  PROVE  (CounterMod * q + r) % CounterMod = r
<1> DEFINE M == CounterMod
           N == M * q + r
           p == N \div M
           s == N % M
<1>1. M \in Nat /\ M > 0 /\ N \in Int /\ p \in Int /\ s \in 0..M-1 /\ N = M * p + s
  OBVIOUS
<1>2. M * (p - q) = r - s
  <2>1. M * (p - q) = M * p - M * q
    BY <1>1
  <2>2. QED
    BY <1>1, <2>1
<1>3. p = q
  <2> DEFINE d == p - q
  <2>1. d \in Int /\ M * d = r - s
    BY <1>1, <1>2
  <2>2. CASE d >= 1
    <3>1. M * d >= M
      BY <1>1, <2>1, <2>2
    <3>2. QED
      BY <1>1, <2>1, <3>1
  <2>3. CASE d <= -1
    <3>1. M * d <= -M
      BY <1>1, <2>1, <2>3
    <3>2. QED
      BY <1>1, <2>1, <3>1
  <2>4. QED
    BY <1>1, <2>1, <2>2, <2>3
<1>4. QED
  BY <1>1, <1>2, <1>3

LEMMA ModStep ==
  ASSUME NEW b \in Int, NEW t, t = b % CounterMod
  PROVE  /\ (t + 1) % CounterMod = (b + 1) % CounterMod
         /\ (t - 1) % CounterMod = (b - 1) % CounterMod
<1> DEFINE M == CounterMod
           q == b \div M
<1>1. M \in Nat /\ M > 0 /\ q \in Int /\ t \in 0..M-1 /\ b = M * q + t
  OBVIOUS
<1>2. (t + 1) % M = (b + 1) % M
  <2>1. CASE t + 1 < M
    <3>1. b + 1 = M * q + (t + 1) /\ t + 1 = M * 0 + (t + 1) /\ t + 1 \in 0..M-1
      BY <1>1, <2>1
    <3>2. QED
      BY <1>1, <3>1, RemainderUnique
  <2>2. CASE t + 1 = M
    <3>1. M * (q + 1) = M * q + M
      BY <1>1
    <3>2. b + 1 = M * (q + 1) + 0 /\ t + 1 = M * 1 + 0 /\ 0 \in 0..M-1 /\ q + 1 \in Int
      BY <1>1, <2>2, <3>1
    <3>3. (M * (q + 1) + 0) % M = 0 /\ (M * 1 + 0) % M = 0
      BY <3>2, RemainderUnique
    <3>4. QED
      BY <3>2, <3>3, Zenon
  <2>3. QED
    BY <1>1, <2>1, <2>2
<1>3. (t - 1) % M = (b - 1) % M
  <2>1. CASE t > 0
    <3>1. b - 1 = M * q + (t - 1) /\ t - 1 = M * 0 + (t - 1) /\ t - 1 \in 0..M-1
      BY <1>1, <2>1
    <3>2. QED
      BY <1>1, <3>1, RemainderUnique, SMTT(30)
  <2>2. CASE t = 0
    <3>1. M * (q - 1) = M * q - M /\ M * (-1) = -M
      BY <1>1
    <3>2. b - 1 = M * (q - 1) + (M - 1) /\ t - 1 = M * (-1) + (M - 1)
          /\ M - 1 \in 0..M-1 /\ q - 1 \in Int
      BY <1>1, <2>2, <3>1
    <3>3. QED
      BY <1>1, <3>2, RemainderUnique, SMTT(30)
  <2>3. QED
    BY <1>1, <2>1, <2>2
<1>4. QED
  BY <1>2, <1>3

\* What the jobs and the workers are when they are counted.
CountedOK ==
  /\ graph \in Graphs /\ pool \in Pools
  /\ jobs \in [Nodes -> Nat] /\ IsFiniteSet(QueuedJobs)
  /\ dpc \in {"begin", "scan", "add", "done"} /\ di \in Nat
  /\ dpc # "begin" => di >= 1
  /\ wpc \in [Workers -> States] /\ wk \in [Workers -> Nat]
  /\ \A w \in Workers :
       /\ wpc[w] # "idle" => wk[w] >= 1
       /\ wpc[w] \in {"decrement", "enqueue", "addTask"} => wk[w] \in DOMAIN graph.edges

Keeps == tg' = tg /\ Balance' = Balance
Raises == AddTask /\ Balance' = Balance + 1
Lowers == TaskDone /\ Balance' = Balance - 1

LEMMA BalanceType ==
  ASSUME CountedOK
  PROVE  /\ IsFiniteSet(Running) /\ IsFiniteSet(Uncounted)
         /\ Cardinality(QueuedJobs) \in Nat /\ Cardinality(Running) \in Nat
         /\ Cardinality(Uncounted) \in Nat /\ Balance \in Int
<1>1. IsFiniteSet(Running) /\ IsFiniteSet(Uncounted)
  BY WorkersAssumption, FS_Subset DEF Running, Uncounted
<1>2. /\ Cardinality(QueuedJobs) \in Nat /\ Cardinality(Running) \in Nat
      /\ Cardinality(Uncounted) \in Nat
  BY <1>1, FS_CardinalityType DEF CountedOK
<1>3. QED
  BY <1>1, <1>2 DEF Balance

LEMMA GraphShape ==
  ASSUME CountedOK
  PROVE  /\ graph.n \in Nat /\ Len(graph.edges) \in Nat
         /\ DOMAIN graph.edges = 1..Len(graph.edges)
         /\ \A k \in DOMAIN graph.edges : To(k) \in Nodes
<1>1. graph.n \in Nat /\ graph.edges \in Seq((1..graph.n) \X (1..graph.n))
  BY DEF CountedOK, IsGraph
<1>2. Len(graph.edges) \in Nat /\ DOMAIN graph.edges = 1..Len(graph.edges)
  BY <1>1
<1>3. ASSUME NEW k \in DOMAIN graph.edges PROVE To(k) \in Nodes
  <2>1. graph.edges[k] \in (1..graph.n) \X (1..graph.n)
    BY <1>1, <1>2, <1>3
  <2>2. QED
    BY <2>1 DEF To, Nodes
<1>4. QED
  BY <1>1, <1>2, <1>3

LEMMA EnqueueCounts ==
  ASSUME CountedOK, NEW x \in Nodes, Enqueue(x), UNCHANGED graph
  PROVE  /\ jobs' \in [Nodes -> Nat] /\ IsFiniteSet(QueuedJobs)'
         /\ Cardinality(QueuedJobs') = Cardinality(QueuedJobs) + 1
<1> USE DEF CountedOK
<1>1. jobs' \in [Nodes -> Nat] /\ jobs[x] \in Nat /\ jobs'[x] = jobs[x] + 1 /\ Nodes' = Nodes
      /\ \A y \in Nodes : y # x => jobs'[y] = jobs[y]
  BY DEF Enqueue, Nodes
<1>2. QueuedJobs' = QueuedJobs \cup {<<x, jobs[x] + 1>>}
  <2>1. 1..jobs'[x] = (1..jobs[x]) \cup {jobs[x] + 1}
    BY <1>1
  <2>2. ASSUME NEW p PROVE p \in QueuedJobs' <=> p \in QueuedJobs \cup {<<x, jobs[x] + 1>>}
    <3>1. p \in QueuedJobs' <=> \E y \in Nodes : \E i \in 1..jobs'[y] : p = <<y, i>>
      BY <1>1 DEF QueuedJobs
    <3>2. p \in QueuedJobs <=> \E y \in Nodes : \E i \in 1..jobs[y] : p = <<y, i>>
      BY DEF QueuedJobs
    <3>3. QED
      BY <1>1, <2>1, <3>1, <3>2, Zenon
  <2>3. QED
    BY <2>2
<1>3. <<x, jobs[x] + 1>> \notin QueuedJobs
  BY <1>1 DEF QueuedJobs
<1>4. /\ IsFiniteSet(QueuedJobs \cup {<<x, jobs[x] + 1>>})
      /\ Cardinality(QueuedJobs \cup {<<x, jobs[x] + 1>>}) = Cardinality(QueuedJobs) + 1
  BY <1>3, FS_AddElement
<1>5. QED
  BY <1>1, <1>2, <1>4, Zenon

LEMMA DequeueCounts ==
  ASSUME CountedOK, NEW x \in Nodes, jobs[x] > 0, jobs' = [jobs EXCEPT ![x] = @ - 1],
         UNCHANGED graph
  PROVE  /\ jobs' \in [Nodes -> Nat] /\ IsFiniteSet(QueuedJobs)'
         /\ Cardinality(QueuedJobs') = Cardinality(QueuedJobs) - 1
<1> USE DEF CountedOK
<1>1. jobs' \in [Nodes -> Nat] /\ jobs[x] \in Nat /\ jobs'[x] = jobs[x] - 1 /\ Nodes' = Nodes
      /\ \A y \in Nodes : y # x => jobs'[y] = jobs[y]
  BY DEF Nodes
<1>2. QueuedJobs' = QueuedJobs \ {<<x, jobs[x]>>}
  <2>1. 1..jobs'[x] = (1..jobs[x]) \ {jobs[x]}
    BY <1>1
  <2>2. ASSUME NEW p PROVE p \in QueuedJobs' <=> p \in QueuedJobs \ {<<x, jobs[x]>>}
    <3>1. p \in QueuedJobs' <=> \E y \in Nodes : \E i \in 1..jobs'[y] : p = <<y, i>>
      BY <1>1 DEF QueuedJobs
    <3>2. p \in QueuedJobs <=> \E y \in Nodes : \E i \in 1..jobs[y] : p = <<y, i>>
      BY DEF QueuedJobs
    <3>3. QED
      BY <1>1, <2>1, <3>1, <3>2
  <2>3. QED
    BY <2>2
<1>3. <<x, jobs[x]>> \in QueuedJobs
  BY <1>1 DEF QueuedJobs
<1>4. /\ IsFiniteSet(QueuedJobs \ {<<x, jobs[x]>>})
      /\ Cardinality(QueuedJobs \ {<<x, jobs[x]>>}) = Cardinality(QueuedJobs) - 1
  <2> DEFINE e == <<x, jobs[x]>>
  <2>1. e \in QueuedJobs
    BY <1>3
  <2> HIDE DEF e
  <2>2. IsFiniteSet(QueuedJobs \ {e}) /\ Cardinality(QueuedJobs \ {e}) = Cardinality(QueuedJobs) - 1
    BY <2>1, FS_RemoveElement
  <2>3. QED
    BY <2>2 DEF e
<1>5. QED
  BY <1>1, <1>2, <1>4, Zenon

\* A worker that begins a job, or ends one, or has one to count or counts it.
LEMMA WorkerCounts ==
  ASSUME CountedOK, NEW w \in Workers, NEW from, NEW to \in States, Goto(w, from, to)
  PROVE  /\ wpc' \in [Workers -> States]
         /\ Cardinality(Running') = Cardinality(Running)
              + (IF to \in {"running", "taskDone"} THEN 1 ELSE 0)
              - (IF from \in {"running", "taskDone"} THEN 1 ELSE 0)
         /\ Cardinality(Uncounted') = Cardinality(Uncounted)
              + (IF to = "addTask" THEN 1 ELSE 0) - (IF from = "addTask" THEN 1 ELSE 0)
<1> USE DEF CountedOK, Goto
<1>1. /\ wpc' \in [Workers -> States] /\ wpc[w] = from /\ wpc'[w] = to
      /\ \A u \in Workers : u # w => wpc'[u] = wpc[u]
  OBVIOUS
<1>2. Cardinality(Running') = Cardinality(Running)
              + (IF to \in {"running", "taskDone"} THEN 1 ELSE 0)
              - (IF from \in {"running", "taskDone"} THEN 1 ELSE 0)
  <2>1. CASE to \in {"running", "taskDone"} /\ from \notin {"running", "taskDone"}
    <3>1. Running' = Running \cup {w} /\ w \notin Running
      BY <1>1, <2>1 DEF Running
    <3>2. Cardinality(Running \cup {w}) = Cardinality(Running) + 1
      BY <3>1, FS_AddElement, BalanceType
    <3>3. Cardinality(Running') = Cardinality(Running) + 1
      BY <3>1, <3>2, Zenon
    <3>4. QED
      BY <2>1, <3>3, BalanceType
  <2>2. CASE to \notin {"running", "taskDone"} /\ from \in {"running", "taskDone"}
    <3>1. Running' = Running \ {w} /\ w \in Running
      BY <1>1, <2>2 DEF Running
    <3>2. Cardinality(Running \ {w}) = Cardinality(Running) - 1
      BY <3>1, FS_RemoveElement, BalanceType
    <3>3. Cardinality(Running') = Cardinality(Running) - 1
      BY <3>1, <3>2, Zenon
    <3>4. QED
      BY <2>2, <3>3, BalanceType
  <2>3. CASE to \in {"running", "taskDone"} <=> from \in {"running", "taskDone"}
    <3>1. Running' = Running
      BY <1>1, <2>3 DEF Running
    <3>2. QED
      BY <2>3, <3>1, BalanceType
  <2>4. QED
    BY <2>1, <2>2, <2>3
<1>3. Cardinality(Uncounted') = Cardinality(Uncounted)
              + (IF to = "addTask" THEN 1 ELSE 0) - (IF from = "addTask" THEN 1 ELSE 0)
  <2>1. CASE to = "addTask" /\ from # "addTask"
    <3>1. Uncounted' = Uncounted \cup {w} /\ w \notin Uncounted
      BY <1>1, <2>1 DEF Uncounted
    <3>2. Cardinality(Uncounted \cup {w}) = Cardinality(Uncounted) + 1
      BY <3>1, FS_AddElement, BalanceType
    <3>3. Cardinality(Uncounted') = Cardinality(Uncounted) + 1
      BY <3>1, <3>2, Zenon
    <3>4. QED
      BY <2>1, <3>3, BalanceType
  <2>2. CASE to # "addTask" /\ from = "addTask"
    <3>1. Uncounted' = Uncounted \ {w} /\ w \in Uncounted
      BY <1>1, <2>2 DEF Uncounted
    <3>2. Cardinality(Uncounted \ {w}) = Cardinality(Uncounted) - 1
      BY <3>1, FS_RemoveElement, BalanceType
    <3>3. Cardinality(Uncounted') = Cardinality(Uncounted) - 1
      BY <3>1, <3>2, Zenon
    <3>4. QED
      BY <2>2, <3>3, BalanceType
  <2>3. CASE to = "addTask" <=> from = "addTask"
    <3>1. Uncounted' = Uncounted
      BY <1>1, <2>3 DEF Uncounted
    <3>2. QED
      BY <2>3, <3>1, BalanceType
  <2>4. QED
    BY <2>1, <2>2, <2>3
<1>4. QED
  BY <1>1, <1>2, <1>3

LEMMA DispatcherCounts ==
  ASSUME CountedOK, Dispatcher
  PROVE  CountedOK' /\ (Keeps \/ Raises)
<1> USE DEF wvars, hist, roots
<1>1. UNCHANGED <<graph, pool, wpc, wk>>
  BY DEF Dispatcher, DispatchCount, ScanReady, ScanWaiting, ScanAdd, ScanEnd
<1>2. Running' = Running /\ Uncounted' = Uncounted
  BY <1>1 DEF Running, Uncounted
<1>3. CASE ScanReady
  <2>1. di \in Nodes /\ Enqueue(di) /\ UNCHANGED <<di, tg>> /\ dpc = "scan" /\ dpc' = "add"
    BY <1>3, GraphShape DEF ScanReady, CountedOK, Nodes
  <2>2. /\ jobs' \in [Nodes -> Nat] /\ IsFiniteSet(QueuedJobs)'
        /\ Cardinality(QueuedJobs') = Cardinality(QueuedJobs) + 1
    BY <1>1, <2>1, EnqueueCounts
  <2>3. CountedOK'
    BY <1>1, <2>1, <2>2 DEF CountedOK, Nodes
  <2>4. Balance' = Balance
    BY <1>2, <2>1, <2>2, BalanceType DEF Balance
  <2>5. QED
    BY <2>1, <2>3, <2>4 DEF Keeps
<1>4. CASE ~ScanReady
  <2>1. jobs' = jobs /\ dpc' \in {"begin", "scan", "add", "done"} /\ di' \in Nat
        /\ (dpc' # "begin" => di' >= 1)
    BY <1>4 DEF Dispatcher, DispatchCount, ScanWaiting, ScanAdd, ScanEnd, CountedOK
  <2>2. QueuedJobs' = QueuedJobs
    BY <1>1, <2>1 DEF QueuedJobs, Nodes
  <2>3. CountedOK'
    BY <1>1, <2>1, <2>2 DEF CountedOK, Nodes
  <2>4. CASE ScanAdd
    <3>1. AddTask /\ dpc = "add" /\ dpc' = "scan"
      BY <2>4 DEF ScanAdd
    <3>2. Balance' = Balance + 1
      BY <1>2, <2>2, <3>1, BalanceType DEF Balance
    <3>3. QED
      BY <2>3, <3>1, <3>2 DEF Raises
  <2>5. CASE ~ScanAdd
    <3>1. tg' = tg /\ dpc # "add" /\ dpc' # "add"
      BY <1>4, <2>5 DEF Dispatcher, DispatchCount, ScanWaiting, ScanEnd
    <3>2. Balance' = Balance
      BY <1>2, <2>2, <3>1, BalanceType DEF Balance
    <3>3. QED
      BY <2>3, <3>1, <3>2 DEF Keeps
  <2>6. QED
    BY <2>4, <2>5
<1>5. QED
  BY <1>3, <1>4

LEMMA RunNodeCounts ==
  ASSUME CountedOK, NEW w \in Workers, NEW x \in Nodes, RunNode(w, x)
  PROVE  CountedOK' /\ Keeps
<1>1. /\ UNCHANGED <<graph, pool, dpc, di, tg>> /\ Goto(w, "idle", "running")
      /\ jobs[x] > 0 /\ jobs' = [jobs EXCEPT ![x] = @ - 1] /\ wk' = [wk EXCEPT ![w] = 1]
  BY DEF RunNode, dvars
<1>2. /\ jobs' \in [Nodes -> Nat] /\ IsFiniteSet(QueuedJobs)'
      /\ Cardinality(QueuedJobs') = Cardinality(QueuedJobs) - 1
  BY <1>1, DequeueCounts
<1>3. /\ wpc' \in [Workers -> States]
      /\ Cardinality(Running') = Cardinality(Running) + 1
      /\ Cardinality(Uncounted') = Cardinality(Uncounted)
  BY <1>1, WorkerCounts, BalanceType DEF States
<1>4. CountedOK'
  BY <1>1, <1>2, <1>3 DEF CountedOK, Nodes, Goto
<1>5. Balance' = Balance
  BY <1>1, <1>2, <1>3, BalanceType DEF Balance
<1>6. QED
  BY <1>1, <1>4, <1>5 DEF Keeps

LEMMA EnqueueSuccessorCounts ==
  ASSUME CountedOK, NEW w \in Workers, EnqueueSuccessor(w)
  PROVE  CountedOK' /\ Keeps
<1>1. /\ UNCHANGED <<graph, pool, dpc, di, tg, wk>> /\ Goto(w, "enqueue", "addTask")
      /\ Enqueue(To(wk[w])) /\ To(wk[w]) \in Nodes
  BY GraphShape DEF EnqueueSuccessor, dvars, CountedOK, Goto
<1>2. /\ jobs' \in [Nodes -> Nat] /\ IsFiniteSet(QueuedJobs)'
      /\ Cardinality(QueuedJobs') = Cardinality(QueuedJobs) + 1
  BY <1>1, EnqueueCounts
<1>3. /\ wpc' \in [Workers -> States]
      /\ Cardinality(Running') = Cardinality(Running)
      /\ Cardinality(Uncounted') = Cardinality(Uncounted) + 1
  BY <1>1, WorkerCounts, BalanceType DEF States
<1>4. CountedOK'
  BY <1>1, <1>2, <1>3 DEF CountedOK, Nodes, Goto
<1>5. Balance' = Balance
  BY <1>1, <1>2, <1>3, BalanceType DEF Balance
<1>6. QED
  BY <1>1, <1>4, <1>5 DEF Keeps

\* The steps of the trampoline that enqueue nothing.
LEMMA WorkerStepCounts ==
  ASSUME CountedOK, NEW w \in Workers, Trampoline(w), ~EnqueueSuccessor(w)
  PROVE  CountedOK' /\ (Keeps \/ Raises \/ Lowers)
<1>1. /\ UNCHANGED <<graph, pool, dpc, di, jobs>>
      /\ wk' \in [Workers -> Nat] /\ \A u \in Workers : u # w => wk'[u] = wk[u]
      /\ wk'[w] >= wk[w] /\ wpc[w] # "idle"
  <2>1. CASE Return(w) \/ CountDone(w) \/ ReadCount(w) \/ EndEdges(w) \/ WriteSlot(w) \/ BumpRoots(w)
    BY <2>1 DEF Return, CountDone, ReadCount, EndEdges, WriteSlot, BumpRoots, dvars, CountedOK, Goto
  <2>2. CASE SkipEdge(w) \/ AddSuccessor(w)
    BY <2>2 DEF SkipEdge, AddSuccessor, dvars, CountedOK, Goto
  <2>3. CASE Decrement(w)
    BY <2>3 DEF Decrement, dvars, CountedOK, Goto
  <2>4. QED
    BY <2>1, <2>2, <2>3 DEF Trampoline
<1>2. QueuedJobs' = QueuedJobs
  BY <1>1 DEF QueuedJobs, Nodes
<1>3. ASSUME NEW from, NEW to \in States, Goto(w, from, to),
             to \in {"decrement", "enqueue", "addTask"} => wk'[w] \in DOMAIN graph.edges
      PROVE  CountedOK'
  <2>1. wpc' \in [Workers -> States]
    BY <1>3, WorkerCounts
  <2>2. /\ wpc'[w] = to /\ \A u \in Workers : u # w => wpc'[u] = wpc[u]
    BY <1>3 DEF Goto, CountedOK
  <2>3. wk[w] \in Nat /\ wk'[w] \in Nat /\ wk[w] >= 1
    BY <1>1 DEF CountedOK
  <2>4. QED
    BY <1>1, <1>2, <1>3, <2>1, <2>2, <2>3 DEF CountedOK, Nodes
<1>4. CASE Return(w) \/ SkipEdge(w) \/ WriteSlot(w) \/ BumpRoots(w) \/ EndEdges(w)
  <2>1. PICK from \in States, to \in States :
          /\ Goto(w, from, to) /\ tg' = tg /\ to \notin {"decrement", "enqueue", "addTask"}
          /\ from # "addTask"
          /\ from \in {"running", "taskDone"} <=> to \in {"running", "taskDone"}
    BY <1>4 DEF Return, SkipEdge, WriteSlot, BumpRoots, EndEdges, States
  <2>2. Cardinality(Running') = Cardinality(Running) /\ Cardinality(Uncounted') = Cardinality(Uncounted)
    BY <2>1, WorkerCounts, BalanceType
  <2>3. Keeps
    BY <1>1, <1>2, <2>1, <2>2 DEF Keeps, Balance
  <2>4. QED
    BY <1>3, <2>1, <2>3
<1>5. CASE ReadCount(w) \/ Decrement(w)
  <2>1. PICK from \in States, to \in States :
          /\ Goto(w, from, to) /\ tg' = tg /\ from \in {"edges", "decrement"}
          /\ to \in {"edges", "decrement", "enqueue"}
          /\ to # "edges" => wk'[w] \in DOMAIN graph.edges
    <3>1. CASE ReadCount(w)
      <4>1. wk[w] \in DOMAIN graph.edges
        BY <3>1, GraphShape DEF ReadCount, CountedOK, Goto
      <4>2. QED
        BY <3>1, <4>1 DEF ReadCount, States
    <3>2. CASE Decrement(w)
      <4>1. wk[w] \in DOMAIN graph.edges
        BY <3>2 DEF Decrement, CountedOK, Goto
      <4>2. CASE wv[w] = 1
        BY <3>2, <4>1, <4>2 DEF Decrement, States
      <4>3. CASE wv[w] # 1
        BY <3>2, <4>3 DEF Decrement, States
      <4>4. QED
        BY <4>2, <4>3
    <3>3. QED
      BY <1>5, <3>1, <3>2
  <2>2. Cardinality(Running') = Cardinality(Running) /\ Cardinality(Uncounted') = Cardinality(Uncounted)
    BY <2>1, WorkerCounts, BalanceType
  <2>3. Keeps
    BY <1>1, <1>2, <2>1, <2>2 DEF Keeps, Balance
  <2>4. QED
    BY <1>3, <2>1, <2>3
<1>6. CASE CountDone(w)
  <2>1. Goto(w, "taskDone", "edges") /\ TaskDone
    BY <1>6 DEF CountDone
  <2>2. Cardinality(Running') = Cardinality(Running) - 1 /\ Cardinality(Uncounted') = Cardinality(Uncounted)
    BY <2>1, WorkerCounts, BalanceType DEF States
  <2>3. Lowers
    BY <1>1, <1>2, <2>1, <2>2, BalanceType DEF Lowers, Balance
  <2>4. QED
    BY <1>3, <2>1, <2>3 DEF States
<1>7. CASE AddSuccessor(w)
  <2>1. Goto(w, "addTask", "edges") /\ AddTask
    BY <1>7 DEF AddSuccessor
  <2>2. Cardinality(Running') = Cardinality(Running) /\ Cardinality(Uncounted') = Cardinality(Uncounted) - 1
    BY <2>1, WorkerCounts, BalanceType DEF States
  <2>3. Raises
    BY <1>1, <1>2, <2>1, <2>2, BalanceType DEF Raises, Balance
  <2>4. QED
    BY <1>3, <2>1, <2>3 DEF States
<1>8. QED
  BY <1>4, <1>5, <1>6, <1>7 DEF Trampoline

LEMMA Stutters ==
  ASSUME CountedOK, UNCHANGED seen
  PROVE  CountedOK' /\ Keeps
BY DEF CountedOK, Keeps, seen, dvars, wvars, Balance, QueuedJobs, Running, Uncounted, Nodes

LEMMA GraphCounts ==
  ASSUME CountedOK, GNext
  PROVE  CountedOK' /\ (Keeps \/ Raises \/ Lowers)
<1>1. ASSUME NEW w \in pool, Worker(w) PROVE CountedOK' /\ (Keeps \/ Raises \/ Lowers)
  <2>1. w \in Workers
    BY DEF CountedOK
  <2>2. QED
    BY <1>1, <2>1, RunNodeCounts, EnqueueSuccessorCounts, WorkerStepCounts DEF Worker
<1>2. QED
  BY <1>1, DispatcherCounts, Stutters, ClashUnseen DEF GNext

LEMMA CountsInit == GInit => CountedOK /\ tg = 0 /\ Balance = 0
<1> SUFFICES ASSUME GInit PROVE CountedOK /\ tg = 0 /\ Balance = 0
  OBVIOUS
<1>1. graph \in Graphs /\ jobs = [x \in Nodes |-> 0] /\ \A w \in Workers : wpc[w] = "idle"
  BY DEF GInit
<1>2. QueuedJobs = {} /\ Running = {} /\ Uncounted = {}
  BY <1>1 DEF QueuedJobs, Running, Uncounted
<1>3. CountedOK
  BY <1>2, FS_EmptySet DEF GInit, CountedOK, States
<1>4. Balance = 0
  BY <1>2, FS_EmptySet DEF Balance, GInit
<1>5. QED
  BY <1>3, <1>4 DEF GInit

(***************************************************************************)
(* The task group's count is, modulo its width, the jobs queued or running *)
(* less those still to be counted, for every graph, also with cycles, any  *)
(* number of workers and any width: enqueue_node counts a task after its   *)
(* job can be run, and no interleaving of dispatch and job_trampoline      *)
(* loses or doubles a count.                                               *)
(***************************************************************************)
THEOREM CountIsExact == GSpec => []CounterMatches
<1> DEFINE Inv == CountedOK /\ CounterMatches
<1>1. GInit => Inv
  BY CountsInit DEF CounterMatches
<1>2. Inv /\ [GNext]_gvars => Inv'
  <2> SUFFICES ASSUME Inv, [GNext]_gvars PROVE Inv'
    OBVIOUS
  <2>1. CountedOK' /\ (Keeps \/ Raises \/ Lowers)
    BY GraphCounts, Stutters, ClashUnseen
  <2>2. CounterMatches'
    BY <2>1, BalanceType, ModStep DEF CounterMatches, Keeps, Raises, Lowers, AddTask, TaskDone
  <2>3. QED
    BY <2>1, <2>2
<1>3. QED
  BY <1>1, <1>2, PTL DEF GSpec

-----------------------------------------------------------------------------
(* Pacing.  The tests of CheckBudget are made on counters read one after   *)
(* the other; what makes them last is that only the runtime thread raises  *)
(* frame_idx and that gpu_done only grows: between the test and NextFrame  *)
(* one more frame still fits.                                              *)

USE RuntimeAssumption
HIDE GraphsAssumption

PacingInv ==
  /\ frameIdx \in 0..TargetFrames /\ gpuDone \in Nat
  /\ frameIdx <= gpuDone + MaxAhead
  /\ rpc \in {"roots", "loop", "add", "frame"} =>
       frameIdx < TargetFrames /\ frameIdx < gpuDone + MaxAhead

LEMMA PacingInit == RInit => PacingInv
BY DEF RInit, PacingInv

LEMMA PacingStep == PacingInv /\ [RNext]_vars => PacingInv'
<1> SUFFICES ASSUME PacingInv, [RNext]_vars PROVE PacingInv'
  OBVIOUS
<1> USE DEF PacingInv
<1>1. CASE Graph \/ UNCHANGED vars
  BY <1>1 DEF Graph, vars, rtvars
<1>2. CASE CheckStop \/ CheckDone \/ RootsBegin \/ ClearRoots
  BY <1>2 DEF CheckStop, CheckDone, RootsBegin, ClearRoots, RGoto
<1>3. CASE CheckBudget
  BY <1>3 DEF CheckBudget, RGoto, Ahead
<1>4. CASE SkipRoot \/ EnqueueRoot \/ AddRoot
  BY <1>4 DEF SkipRoot, EnqueueRoot, AddRoot, RGoto
<1>5. CASE NextFrame
  BY <1>5 DEF NextFrame, RGoto
<1>6. CASE MarkGpuCompleted
  BY <1>6 DEF MarkGpuCompleted
<1>7. CASE RequestStop \/ Join
  BY <1>7 DEF RequestStop, Join
<1>8. QED
  BY <1>1, <1>2, <1>3, <1>4, <1>5, <1>6, <1>7 DEF RNext, Runtime

(***************************************************************************)
(* The frames dispatched are never more than max_ahead ahead of those the  *)
(* GPU has completed, for every graph, pool of workers, max_ahead and      *)
(* target_frames (runtime_entry and mark_gpu_completed).                   *)
(***************************************************************************)
THEOREM BackpressureHolds == RSpec => []Backpressure
<1>1. PacingInv => Backpressure
  BY DEF PacingInv, Backpressure
<1>2. QED
  BY PacingInit, PacingStep, <1>1, PTL DEF RSpec

-----------------------------------------------------------------------------
(* The roots.  job_trampoline tests the count and raises it in steps of    *)
(* its own.  With one worker, only the runtime's reset to zero can come in *)
(* between, so the count tested and the count there is are both below the  *)
(* capacity until the worker has raised it.                                *)

OneWorkerEach == \A p \in Pools : \A u, v \in p : u = v

RootsInv ==
  /\ pool \in Pools
  /\ wpc \in [Workers -> States]
  /\ wv = [w \in Workers |-> wv[w]]
  /\ nroots \in 0..RootsCap /\ rend \in 0..RootsCap
  /\ \A w \in Workers : wpc[w] # "idle" => w \in pool
  /\ \A w \in Workers : wpc[w] \in {"slot", "bump"} =>
       nroots < RootsCap /\ wv[w] \in 0..RootsCap-1

LEMMA RootsInit == RInit => RootsInv
BY DEF RInit, GInit, RootsInv, States

LEMMA RootsWorkerStep ==
  ASSUME RootsInv, OneWorkerEach, NEW w \in pool, Worker(w), UNCHANGED rtvars
  PROVE  RootsInv'
<1> USE DEF RootsInv, Goto, States, rtvars
<1>1. w \in Workers /\ \A v \in pool : v = w
  BY DEF OneWorkerEach
<1>2. CASE Return(w) \/ CountDone(w) \/ SkipEdge(w)
  BY <1>1, <1>2 DEF Return, CountDone, SkipEdge, roots
<1>3. CASE ReadCount(w)
  BY <1>1, <1>3 DEF ReadCount, roots
<1>4. CASE Decrement(w) \/ EnqueueSuccessor(w) \/ AddSuccessor(w)
  BY <1>1, <1>4 DEF Decrement, EnqueueSuccessor, AddSuccessor, roots
<1>5. CASE EndEdges(w)
  <2>1. /\ UNCHANGED <<pool, nroots, rend>> /\ wv' = [wv EXCEPT ![w] = nroots]
        /\ wpc[w] = "edges" /\ wpc' \in {[wpc EXCEPT ![w] = "slot"], [wpc EXCEPT ![w] = "idle"]}
        /\ wpc'[w] = "slot" => nroots < RootsCap
    BY <1>5 DEF EndEdges, roots
  <2>2. \A v \in Workers : v # w => wpc[v] = "idle" /\ wpc'[v] = "idle"
    BY <1>1, <2>1
  <2>3. QED
    BY <1>1, <2>1, <2>2
<1>6. CASE WriteSlot(w)
  BY <1>1, <1>6 DEF WriteSlot
<1>7. CASE BumpRoots(w)
  BY <1>1, <1>7 DEF BumpRoots, RootsCount
<1>8. CASE \E x \in Nodes : RunNode(w, x)
  BY <1>1, <1>8 DEF RunNode, roots
<1>9. QED
  BY <1>2, <1>3, <1>4, <1>5, <1>6, <1>7, <1>8 DEF Worker, Trampoline

LEMMA RootsStep == OneWorkerEach /\ RootsInv /\ [RNext]_vars => RootsInv'
<1> SUFFICES ASSUME OneWorkerEach, RootsInv, [RNext]_vars PROVE RootsInv'
  OBVIOUS
<1>1. ASSUME NEW w \in pool, Worker(w), UNCHANGED rtvars PROVE RootsInv'
  BY <1>1, RootsWorkerStep
<1>2. CASE Dispatcher /\ UNCHANGED rtvars
  BY <1>2 DEF Dispatcher, DispatchCount, ScanReady, ScanWaiting, ScanAdd, ScanEnd,
              RootsInv, rtvars, wvars, roots
<1>3. CASE Clash /\ UNCHANGED rtvars
  BY <1>3, ClashUnseen DEF seen, RootsInv, rtvars, wvars, roots
<1>4. CASE RootsBegin \/ ClearRoots
  BY <1>4 DEF RootsBegin, ClearRoots, RootsInv, gvars, wvars, loopvars
<1>5. CASE Runtime /\ ~RootsBegin /\ ~ClearRoots
  <2>1. UNCHANGED <<pool, wpc, wv, nroots, rend>>
    BY <1>5 DEF Runtime, CheckStop, CheckDone, CheckBudget, SkipRoot, EnqueueRoot, AddRoot,
                NextFrame, gvars, wvars, roots, loopvars
  <2>2. QED
    BY <2>1 DEF RootsInv
<1>6. CASE MarkGpuCompleted \/ RequestStop \/ Join \/ UNCHANGED vars
  BY <1>6 DEF MarkGpuCompleted, RequestStop, Join, RootsInv, vars, gvars, rtvars, loopvars
<1>7. QED
  BY <1>1, <1>2, <1>4, <1>5, <1>6, <1>3 DEF RNext, Graph, GNext

(***************************************************************************)
(* With one worker, next_roots_count and the range of a dispatch never     *)
(* pass next_roots_cap, although the runtime thread clears the count while *)
(* the worker is between its test and its write, for every graph.          *)
(***************************************************************************)
THEOREM OneWorkerRootsInBounds ==
  ASSUME OneWorkerEach
  PROVE  RSpec => []RootsInBounds
<1>1. RootsInv => RootsInBounds
  BY DEF RootsInv, RootsInBounds
<1>2. RootsInv /\ [RNext]_vars => RootsInv'
  BY RootsStep
<1>3. QED
  BY <1>1, <1>2, RootsInit, PTL DEF RSpec

-----------------------------------------------------------------------------
HIDE RuntimeAssumption

(***************************************************************************)
(* The count also accounts for the roots that dispatch_next_frame_roots    *)
(* enqueues from the runtime thread, while workers count tasks of the      *)
(* frame before: for every graph, number of workers, of frames and width.  *)
(***************************************************************************)
THEOREM FrameCountIsExact == RSpec => []FrameCounterMatches
<1> DEFINE Frames == Balance - (IF rpc = "add" THEN 1 ELSE 0)
           Inv == CountedOK /\ FrameCounterMatches
<1>1. RInit => Inv
  BY CountsInit DEF RInit, FrameCounterMatches
<1>2. Inv /\ [RNext]_vars => Inv'
  <2> SUFFICES ASSUME Inv, [RNext]_vars PROVE Inv'
    OBVIOUS
  <2>1. Balance \in Int /\ Frames \in Int /\ tg = Frames % CounterMod
    BY BalanceType DEF FrameCounterMatches
  <2>2. CASE Graph
    <3>1. CountedOK' /\ (Keeps \/ Raises \/ Lowers) /\ rpc' = rpc
      BY <2>2, GraphCounts DEF Graph, rtvars
    <3>2. \/ tg' = tg /\ Frames' = Frames
          \/ AddTask /\ Frames' = Frames + 1
          \/ TaskDone /\ Frames' = Frames - 1
      BY <2>1, <3>1 DEF Keeps, Raises, Lowers
    <3> HIDE DEF Frames
    <3>3. tg' = Frames' % CounterMod
      BY <2>1, <3>2, ModStep DEF AddTask, TaskDone
    <3>4. QED
      BY <3>1, <3>3 DEF FrameCounterMatches, Frames
  <2>3. CASE EnqueueRoot
    <3>1. PICK x \in Nodes : Enqueue(x)
      BY <2>3 DEF EnqueueRoot
    <3>2. UNCHANGED <<graph, pool, tg, dpc, di, wpc, wk>> /\ rpc = "loop" /\ rpc' = "add"
      BY <2>3 DEF EnqueueRoot, RGoto, dvars, wvars
    <3>3. /\ jobs' \in [Nodes -> Nat] /\ IsFiniteSet(QueuedJobs)'
          /\ Cardinality(QueuedJobs') = Cardinality(QueuedJobs) + 1
      BY <3>1, <3>2, EnqueueCounts
    <3>4. CountedOK'
      BY <3>2, <3>3 DEF CountedOK, Nodes
    <3>5. Running' = Running /\ Uncounted' = Uncounted
      BY <3>2 DEF Running, Uncounted
    <3>6. Balance' = Balance + 1
      BY <3>2, <3>3, <3>5, BalanceType DEF Balance
    <3>7. Frames' = Frames
      BY <2>1, <3>2, <3>6
    <3>8. QED
      BY <2>1, <3>2, <3>4, <3>7 DEF FrameCounterMatches
  <2>4. CASE AddRoot
    <3>1. /\ UNCHANGED <<graph, pool, jobs, dpc, di, wpc, wk>>
          /\ rpc = "add" /\ rpc' = "loop" /\ AddTask
      BY <2>4 DEF AddRoot, RGoto, dvars, wvars
    <3>2. CountedOK' /\ Balance' = Balance
      BY <3>1 DEF CountedOK, Balance, QueuedJobs, Running, Uncounted, Nodes
    <3>3. Frames' = Frames + 1
      BY <2>1, <3>1, <3>2
    <3>4. tg' = Frames' % CounterMod
      <4>1. PICK f \in Int : f = Frames
        BY <2>1
      <4>2. tg' = (tg + 1) % CounterMod /\ tg = f % CounterMod
        BY <2>1, <3>1, <4>1 DEF AddTask
      <4>3. (tg + 1) % CounterMod = (f + 1) % CounterMod
        BY <4>2, ModStep
      <4>4. Frames' = f + 1
        BY <3>3, <4>1
      <4>5. QED
        BY <4>2, <4>3, <4>4
    <3>5. QED
      BY <3>2, <3>4 DEF FrameCounterMatches
  <2>5. CASE ~Graph /\ ~EnqueueRoot /\ ~AddRoot
    <3>1. /\ UNCHANGED <<graph, pool, jobs, tg, dpc, di, wpc, wk>>
          /\ (rpc = "add" <=> rpc' = "add")
      BY <2>5 DEF RNext, Runtime, CheckStop, CheckDone, CheckBudget, RootsBegin, SkipRoot,
                  ClearRoots, NextFrame, MarkGpuCompleted, RequestStop, Join, RGoto,
                  vars, gvars, rtvars, dvars, wvars
    <3>2. CountedOK' /\ Balance' = Balance
      BY <3>1 DEF CountedOK, Balance, QueuedJobs, Running, Uncounted, Nodes
    <3>3. QED
      BY <2>1, <3>1, <3>2 DEF FrameCounterMatches
  <2>6. QED
    BY <2>2, <2>3, <2>4, <2>5
<1>4. QED
  BY <1>1, <1>2, PTL DEF RSpec
=============================================================================
