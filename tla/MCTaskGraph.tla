---------------------------- MODULE MCTaskGraph ----------------------------
(* The parallel execution of small graphs, and the deque that holds the jobs:  *)
(* one behaviour is of one of them, chosen at the start.                       *)
EXTENDS TaskGraph, ChaseLevDeque

CONSTANTS Parts, w1, w2, w3

VARIABLE which

ThreeWorkers == {w1, w2, w3}
UpToThree == {{w1}, {w1, w2}, {w1, w2, w3}}
One == {{w1}}

NoTriggers(n) == [x \in 1..n |-> 0]
Graph(n, edges) == [n |-> n, edges |-> edges, trig |-> NoTriggers(n)]

\* Every node without predecessors was added after every node with some.
RootsAreLast(g) ==
  LET targets == {g.edges[k][2] : k \in DOMAIN g.edges}
  IN  \A x \in targets, y \in (1..g.n) \ targets : x < y

\* Every such graph of three nodes and up to three edges (cycles, self loops
\* and repeated edges included; the edges of a node are sorted, because their
\* order decides only which successor comes first), and some of four nodes.
Sorted(e) ==
  \A i, j \in DOMAIN e : i < j => 3 * e[i][1] + e[i][2] <= 3 * e[j][1] + e[j][2]
SmallGraphs ==
  {Graph(3, e) : e \in {f \in UNION {[1..k -> (1..3) \X (1..3)] : k \in 0..3} : Sorted(f)}}
Diamond == Graph(4, <<<<4, 2>>, <<4, 3>>, <<2, 1>>, <<3, 1>>>>)
WideJoin == Graph(4, <<<<4, 1>>, <<3, 1>>, <<2, 1>>>>)
Triggered == [Graph(3, <<<<3, 1>>, <<3, 2>>>>) EXCEPT !.trig = <<3, 3, 0>>]

LargerGraphs == {Diamond, WideJoin, Triggered}
RootsLast == {g \in SmallGraphs : RootsAreLast(g)} \cup LargerGraphs

\* Two nodes and an edge, added in the order they run.
NaturalChain == {Graph(2, <<<<1, 2>>>>)}

\* Three workers execute the larger graphs only.
PartInit ==
  /\ which \in Parts
  /\ GInit /\ (Cardinality(pool) > 2 => graph \in LargerGraphs)
            /\ (which # "graph" => pool = CHOOSE p \in Pools : Cardinality(p) = 1)
            /\ (which # "graph" => graph = CHOOSE g \in Graphs : TRUE)
  /\ Init /\ (which # "deque" => env = CHOOSE e \in Envs : TRUE)

PartNext ==
  /\ UNCHANGED which
  /\ \/ which = "graph" /\ GNext /\ UNCHANGED vars
     \/ which = "deque" /\ Next /\ UNCHANGED gvars

PartSpec == PartInit /\ [][PartNext]_<<gvars, vars, which>>
PartFairSpec == PartSpec /\ (which = "graph" => GFairness)
-----------------------------------------------------------------------------
(* As long as no push clashes, every node not behind a cycle runs to its end,  *)
(* on one worker, or on any number when no count is decremented twice          *)
(* (task_graph.rs).                                                            *)
EventuallyAllRun == which = "graph" => RunnableRun
=============================================================================
