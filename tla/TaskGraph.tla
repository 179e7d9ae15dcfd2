------------------------------ MODULE TaskGraph ------------------------------
(***************************************************************************)
(* The parallel execution of a task graph by Sys.Task                      *)
(* (Foundation/Sys/Task/API/task_graph.rs): dispatch counts the incoming   *)
(* edges of every node and enqueues the nodes without any; the trampoline  *)
(* that runs a node then decrements its successors' counts, in plain       *)
(* memory, and enqueues those that reach zero.  Dispatcher and workers run *)
(* at the same time.                                                       *)
(*                                                                         *)
(* The scheduler appears as the bag of enqueued jobs, from which any idle  *)
(* worker takes any job.  It is no better than the deques under it: they   *)
(* are pushed to by threads that do not own them, and a push that clashes  *)
(* with another push, with the owner's pop or with a full ring may lose    *)
(* jobs or leave one to be handed out again (ChaseLevDeque shows how).     *)
(* Nodes are numbered by their handles, 1, 2, ...                          *)
(***************************************************************************)
EXTENDS Integers, Sequences, FiniteSets

CONSTANTS
  Workers,
  Pools,       \* the sets of workers a scheduler may be started with
  Graphs,      \* the graphs the dispatcher may be given, see IsGraph
  RootsCap,    \* next_roots_cap
  CounterMod   \* TaskGroup counts modulo this (2^64 in the code)

\* A graph: number of nodes, sequence of edges <<from, to>>, and per node the
\* id in its NextFrameRoot trigger (0: none).
IsGraph(g) ==
  /\ g.n \in Nat
  /\ g.edges \in Seq((1..g.n) \X (1..g.n))
  /\ g.trig \in [1..g.n -> Nat]

ASSUME WorkersAssumption == IsFiniteSet(Workers)
ASSUME PoolsAssumption == Pools \subseteq SUBSET Workers
ASSUME GraphsAssumption == \A g \in Graphs : IsGraph(g)
ASSUME CounterAssumption == RootsCap \in Nat /\ CounterMod \in Nat \ {0}

VARIABLES
  graph,
  pool,         \* the workers there are
  indeg,        \* dyn_indeg
  jobs,         \* per node: jobs enqueued and not started
  lost,         \* per node: how many of these no deque holds any more
  clashed,      \* history: some push has clashed
  repeated,     \* a job has been handed out again
  tg,           \* TaskGroup.n
  slots, nroots, \* next_roots, next_roots_count
  dpc, di,      \* the dispatcher: program counter and loop index
  wpc, wn, wk, wv, \* per worker: program counter, node, edge index, value read
  started, finished \* history, per node: how often its function began, returned

deques == <<lost, clashed, repeated>>
gvars == <<graph, pool, indeg, jobs, deques, tg, slots, nroots, dpc, di, wpc, wn, wk, wv,
           started, finished>>
dvars == <<dpc, di>>
wvars == <<wpc, wn, wk, wv>>
roots == <<slots, nroots>>
hist == <<started, finished>>

Nodes == 1..graph.n
From(k) == graph.edges[k][1]
To(k) == graph.edges[k][2]
Incoming(x) == {k \in DOMAIN graph.edges : To(k) = x}

GInit ==
  /\ graph \in Graphs /\ pool \in Pools
  /\ indeg = [x \in Nodes |-> 0]
  /\ jobs = [x \in Nodes |-> 0]
  /\ lost = [x \in Nodes |-> 0] /\ clashed = FALSE /\ repeated = FALSE
  /\ tg = 0
  /\ slots = [i \in 0..RootsCap-1 |-> 0] /\ nroots = 0
  /\ dpc = "begin" /\ di = 0
  /\ wpc = [w \in Workers |-> "idle"]
  /\ wn = [w \in Workers |-> 0]
  /\ wk = [w \in Workers |-> 0]
  /\ wv = [w \in Workers |-> 0]
  /\ started = [x \in Nodes |-> 0]
  /\ finished = [x \in Nodes |-> 0]

-----------------------------------------------------------------------------
(* TaskGroup and Scheduler as the graph uses them *)

AddTask == tg' = (tg + 1) % CounterMod
\* Mutant: the count goes below zero instead of around.
TaskDoneSigned == tg' = tg - 1
TaskDone == tg' = (tg - 1) % CounterMod

\* A push, which may clash.
Enqueue(x) ==
  /\ jobs' = [jobs EXCEPT ![x] = @ + 1]
  /\ clashed' \in {clashed, TRUE}
  /\ UNCHANGED <<lost, repeated>>

\* After a clash bottom may lie before jobs that were pushed.
LoseJob ==
  /\ clashed
  /\ \E x \in Nodes : jobs[x] > lost[x] /\ lost' = [lost EXCEPT ![x] = @ + 1]
  /\ UNCHANGED <<graph, pool, indeg, jobs, clashed, repeated, tg, roots, dvars, wvars, hist>>

\* Or behind a job that was taken.  Its context was freed by the first run
\* (Box::from_raw): the model follows the program no further.
RepeatJob ==
  /\ clashed
  /\ \E x \in Nodes : started[x] > 0
  /\ repeated' = TRUE
  /\ UNCHANGED <<graph, pool, indeg, jobs, lost, clashed, tg, roots, dvars, wvars, hist>>

Clash == LoseJob \/ RepeatJob

-----------------------------------------------------------------------------
(* dispatch *)

\* The counts are computed before the first job is enqueued.
DispatchCount ==
  /\ dpc = "begin"
  /\ indeg' = [x \in Nodes |-> Cardinality(Incoming(x))]
  /\ dpc' = "scan" /\ di' = 1
  /\ UNCHANGED <<graph, pool, jobs, deques, tg, roots, wvars, hist>>

\* Mutant: nodes that still wait for one predecessor are enqueued too.
ScanReadyOffByOne ==
  /\ dpc = "scan" /\ di <= graph.n
  /\ indeg[di] <= 1
  /\ Enqueue(di)
  /\ dpc' = "add"
  /\ UNCHANGED <<graph, pool, indeg, tg, roots, di, wvars, hist>>

ScanReady ==
  /\ dpc = "scan" /\ di <= graph.n
  /\ indeg[di] = 0
  /\ Enqueue(di)
  /\ dpc' = "add"
  /\ UNCHANGED <<graph, pool, indeg, tg, roots, di, wvars, hist>>

ScanWaiting ==
  /\ dpc = "scan" /\ di <= graph.n
  /\ indeg[di] # 0
  /\ di' = di + 1
  /\ UNCHANGED <<graph, pool, indeg, jobs, deques, tg, slots, nroots, dpc, wvars, hist>>

\* enqueue_node counts the task after it has enqueued the job.
ScanAdd ==
  /\ dpc = "add"
  /\ AddTask
  /\ dpc' = "scan" /\ di' = di + 1
  /\ UNCHANGED <<graph, pool, indeg, jobs, deques, roots, wvars, hist>>

ScanEnd ==
  /\ dpc = "scan" /\ di > graph.n
  /\ dpc' = "done"
  /\ UNCHANGED <<graph, pool, indeg, jobs, deques, tg, roots, di, wvars, hist>>

Dispatcher == DispatchCount \/ ScanReady \/ ScanWaiting \/ ScanAdd \/ ScanEnd

-----------------------------------------------------------------------------
(* job_trampoline *)

Goto(w, from, to) == wpc[w] = from /\ wpc' = [wpc EXCEPT ![w] = to]

\* The worker takes a job and starts the node's function.
RunNode(w, x) ==
  /\ jobs[x] > 0 /\ lost[x] # jobs[x]
  /\ Goto(w, "idle", "running")
  /\ jobs' = [jobs EXCEPT ![x] = @ - 1]
  /\ wn' = [wn EXCEPT ![w] = x]
  /\ wk' = [wk EXCEPT ![w] = 1]
  /\ started' = [started EXCEPT ![x] = @ + 1]
  /\ UNCHANGED <<graph, pool, indeg, deques, tg, roots, dvars, wv, finished>>

Return(w) ==
  /\ Goto(w, "running", "taskDone")
  /\ finished' = [finished EXCEPT ![wn[w]] = @ + 1]
  /\ UNCHANGED <<graph, pool, indeg, jobs, deques, tg, roots, dvars, wn, wk, wv, started>>

CountDone(w) ==
  /\ Goto(w, "taskDone", "edges")
  /\ TaskDone
  /\ UNCHANGED <<graph, pool, indeg, jobs, deques, roots, dvars, wn, wk, wv, hist>>

\* An edge of another node, or one whose target's count is zero already.
SkipEdge(w) ==
  /\ Goto(w, "edges", "edges")
  /\ wk[w] <= Len(graph.edges)
  /\ From(wk[w]) # wn[w] \/ indeg[To(wk[w])] = 0
  /\ wk' = [wk EXCEPT ![w] = @ + 1]
  /\ UNCHANGED <<graph, pool, indeg, jobs, deques, tg, roots, dvars, wn, wv, hist>>

\* let dv = p.read()
ReadCount(w) ==
  /\ Goto(w, "edges", "decrement")
  /\ wk[w] <= Len(graph.edges)
  /\ From(wk[w]) = wn[w] /\ indeg[To(wk[w])] > 0
  /\ wv' = [wv EXCEPT ![w] = indeg[To(wk[w])]]
  /\ UNCHANGED <<graph, pool, indeg, jobs, deques, tg, roots, dvars, wn, wk, hist>>

\* Mutant: the successor is enqueued one predecessor early.
DecrementEarly(w) ==
  /\ Goto(w, "decrement", IF wv[w] <= 2 THEN "enqueue" ELSE "edges")
  /\ indeg' = [indeg EXCEPT ![To(wk[w])] = wv[w] - 1]
  /\ wk' = IF wv[w] <= 2 THEN wk ELSE [wk EXCEPT ![w] = @ + 1]
  /\ UNCHANGED <<graph, pool, jobs, deques, tg, roots, dvars, wn, wv, hist>>

\* p.write(dv - 1)
Decrement(w) ==
  /\ Goto(w, "decrement", IF wv[w] = 1 THEN "enqueue" ELSE "edges")
  /\ indeg' = [indeg EXCEPT ![To(wk[w])] = wv[w] - 1]
  /\ wk' = IF wv[w] = 1 THEN wk ELSE [wk EXCEPT ![w] = @ + 1]
  /\ UNCHANGED <<graph, pool, jobs, deques, tg, roots, dvars, wn, wv, hist>>

EnqueueSuccessor(w) ==
  /\ Goto(w, "enqueue", "addTask")
  /\ Enqueue(To(wk[w]))
  /\ UNCHANGED <<graph, pool, indeg, tg, roots, dvars, wn, wk, wv, hist>>

\* Mutant: the successor is enqueued but not counted.
ForgetSuccessor(w) ==
  /\ Goto(w, "addTask", "edges")
  /\ wk' = [wk EXCEPT ![w] = @ + 1]
  /\ UNCHANGED <<graph, pool, indeg, jobs, deques, tg, roots, dvars, wn, wv, hist>>

\* Mutant: the loop over the edges ends with the first successor enqueued.
FirstSuccessorOnly(w) ==
  /\ Goto(w, "addTask", "edges")
  /\ AddTask
  /\ wk' = [wk EXCEPT ![w] = Len(graph.edges) + 1]
  /\ UNCHANGED <<graph, pool, indeg, jobs, deques, roots, dvars, wn, wv, hist>>

AddSuccessor(w) ==
  /\ Goto(w, "addTask", "edges")
  /\ AddTask
  /\ wk' = [wk EXCEPT ![w] = @ + 1]
  /\ UNCHANGED <<graph, pool, indeg, jobs, deques, roots, dvars, wn, wv, hist>>

\* Mutant: no test of the capacity of next_roots.
EndEdgesUnchecked(w) ==
  /\ wk[w] > Len(graph.edges)
  /\ Goto(w, "edges", IF graph.trig[wn[w]] # 0 THEN "slot" ELSE "idle")
  /\ wv' = [wv EXCEPT ![w] = nroots]
  /\ UNCHANGED <<graph, pool, indeg, jobs, deques, tg, roots, dvars, wn, wk, hist>>

EndEdges(w) ==
  /\ wk[w] > Len(graph.edges)
  /\ Goto(w, "edges", IF graph.trig[wn[w]] # 0 /\ nroots < RootsCap
                      THEN "slot" ELSE "idle")
  /\ wv' = [wv EXCEPT ![w] = nroots]
  /\ UNCHANGED <<graph, pool, indeg, jobs, deques, tg, roots, dvars, wn, wk, hist>>

\* next_roots_count is plain memory that other threads write: each later use
\* of it is the value read above or the value it has by then.
RootsCount(w) == {wv[w], nroots}

WriteSlot(w) ==
  /\ Goto(w, "slot", "bump")
  /\ \E c \in RootsCount(w) :
       slots' = [i \in DOMAIN slots |-> IF i = c THEN graph.trig[wn[w]] ELSE slots[i]]
  /\ UNCHANGED <<graph, pool, indeg, jobs, deques, tg, nroots, dvars, wn, wk, wv, hist>>

BumpRoots(w) ==
  /\ Goto(w, "bump", "idle")
  /\ \E c \in RootsCount(w) : nroots' = c + 1
  /\ UNCHANGED <<graph, pool, indeg, jobs, deques, tg, slots, dvars, wn, wk, wv, hist>>

Trampoline(w) ==
  \/ Return(w) \/ CountDone(w) \/ SkipEdge(w) \/ ReadCount(w) \/ Decrement(w)
  \/ EnqueueSuccessor(w) \/ AddSuccessor(w) \/ EndEdges(w)
  \/ WriteSlot(w) \/ BumpRoots(w)

Worker(w) == Trampoline(w) \/ \E x \in Nodes : RunNode(w, x)

GNext == ~repeated /\ (Dispatcher \/ (\E w \in pool : Worker(w)) \/ Clash)

GSpec == GInit /\ [][GNext]_gvars

\* Every worker thread and the dispatching thread are scheduled.  A worker
\* takes what the deques hold (see Scheduler), never what they have lost.
GFairness ==
  /\ WF_gvars(~repeated /\ Dispatcher)
  /\ \A w \in Workers : WF_gvars(~repeated /\ w \in pool /\ Worker(w))

GFairSpec == GSpec /\ GFairness

-----------------------------------------------------------------------------
(* Properties *)

States == {"idle", "running", "taskDone", "edges", "decrement", "enqueue", "addTask",
           "slot", "bump"}

TypeOK ==
  /\ IsGraph(graph) /\ pool \in Pools
  /\ indeg \in [Nodes -> 0..Len(graph.edges)]
  /\ jobs \in [Nodes -> Nat] /\ DOMAIN lost = Nodes /\ \A x \in Nodes : lost[x] \in 0..jobs[x]
  /\ clashed \in BOOLEAN /\ repeated \in BOOLEAN
  /\ tg \in 0..CounterMod-1
  /\ DOMAIN slots = 0..RootsCap-1 /\ nroots \in Nat
  /\ dpc \in {"begin", "scan", "add", "done"} /\ di \in 0..graph.n+1
  /\ wpc \in [Workers -> States]
  /\ \A w \in Workers :
       /\ wpc[w] # "idle" => wn[w] \in Nodes
       /\ wpc[w] \in {"decrement", "enqueue", "addTask"} => wk[w] \in DOMAIN graph.edges
       /\ wpc[w] = "decrement" => wv[w] \in 1..Len(graph.edges)

(***************************************************************************)
(* A node runs at most once per dispatch.  Its argument is owned by that   *)
(* one run.                                                                *)
(***************************************************************************)
AtMostOnce == \A x \in Nodes : started[x] + jobs[x] <= 1

(***************************************************************************)
(* A node begins only after every node it depends on has returned,         *)
(* whatever jobs clashing pushes have lost.                                *)
(***************************************************************************)
TopologicalOrder ==
  \A x \in Nodes : started[x] + jobs[x] > 0 =>
    \A k \in Incoming(x) : finished[From(k)] > 0

Busy == {w \in Workers : wpc[w] # "idle"}
Quiet == dpc = "done" /\ Busy = {} /\ \A x \in Nodes : jobs[x] = 0

\* The jobs not started, lost or not, numbered per node; the workers inside a node; those
\* that have enqueued a successor and not counted it.
QueuedJobs == UNION {{x} \X (1..jobs[x]) : x \in Nodes}
Running == {w \in Workers : wpc[w] \in {"running", "taskDone"}}
Uncounted == {w \in Workers : wpc[w] = "addTask"}

Balance ==
  Cardinality(QueuedJobs) + Cardinality(Running)
    - Cardinality(Uncounted) - (IF dpc = "add" THEN 1 ELSE 0)

(***************************************************************************)
(* The group's count is, modulo its width, the jobs queued, lost or        *)
(* running less those enqueued whose add_tasks is still to come: it may    *)
(* pass through zero, or below, but when all work is done it is zero and   *)
(* wait returns, and a lost job keeps it above zero for ever.              *)
(***************************************************************************)
CounterMatches == tg = Balance % CounterMod

(***************************************************************************)
(* The parallel execution keeps the promise of TaskOrder.                  *)
(***************************************************************************)
Order == INSTANCE TaskOrder WITH n <- graph.n, edges <- graph.edges

ImplementsOrder == Order!Spec

\* The nodes on or behind a cycle of edges, which never become ready.
Blocked ==
  UNION {S \in SUBSET Nodes : \A x \in S : \E k \in Incoming(x) : From(k) \in S}
Runnable == Nodes \ Blocked

\* No node waits for two others, so that no two workers decrement a count.
Forest == \A x \in Nodes : Cardinality(Incoming(x)) <= 1

(***************************************************************************)
(* As long as no push clashes, every node not behind a cycle runs to its   *)
(* end, on one worker, or on any number when no count is decremented       *)
(* twice.                                                                  *)
(***************************************************************************)
RunnableRun ==
  Forest \/ Cardinality(pool) = 1 =>
    ([]~clashed => <>(\A x \in Runnable : finished[x] = 1))
=============================================================================
