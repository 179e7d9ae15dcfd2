# Concinna: TLA+ specifications of the engine

Concinna is a game engine in Rust. Its layers are, from the bottom: `Prm`
(operating system primitives), `Cap` (algorithms, containers, memory,
concurrency), `Sys` (jobs, tasks, memory rings, resources, file system,
rendering), `Sim` (entities and components) and `Engine` (the application).
This directory specifies the parts that decide something: where threads meet
(lock-free containers, task graph, scheduler, everything that waits), where
memory and objects are owned (allocators, containers, entities, buffers, system
resources), the frame as the application and the Vulkan backend run it, and the
algorithms and arithmetic that have a definition to be compared with.

All paths below are relative to `src/Foundation`, unless they begin with
another directory of `src`.

## Inventory

| Component | State | Operations | What is hard | What makes it correct | Module |
|---|---|---|---|---|---|
| `Cap/Containers` MPMCQueue | ring of slots with sequence numbers, two tickets counters | `enqueue`, `dequeue` by any thread | overtaking between compare-and-swap, payload and sequence store; laps | FIFO, each value once, slots have one user, answers justified | MPMCQueue |
| `Cap/Containers` ChaseLevDeque | ring, `top`, `bottom` | `push_bottom`, `pop_bottom` (owner), `steal` | race for the last item, store buffers, full ring, who is the owner | a sequence: nothing lost, nothing twice | ChaseLevDeque |
| `Sys/Task` TaskGraph | nodes, edges, `dyn_indeg`, `next_roots` | build; `dispatch`; trampoline; `dispatch_inline`; `dispatch_next_frame_roots` | dispatcher, workers and runtime share plain memory | each node once, in order; all run; count exact | TaskGraph, TaskGraphInline |
| `Sys/Task` TaskRuntime | `frame_idx`, `gpu_done`, `stop` | polling thread, `mark_gpu_completed`, `stop_and_join` | counters read one after the other while others move | backpressure, bounds, stopping | TaskRuntime |
| `Sys/Task` CommandBuffer, CommandAggregator | commands per buffer | `push`, `add`, `apply_all` | the list of buffers outlives their contents | commands applied once, in order | CommandBuffers |
| `Sys/Job` TaskGroup | count, auto-reset event | `add_tasks`, `task_done`, `wait`, `is_done` | shared and erased signals | wait is sound and returns | TaskGroup |
| `Sys/Job` Scheduler | per worker two deques and a parker | `start`, `enqueue`, `worker_main`, `stop`, `join` | park against unpark, stopping, fibers freed | every job runs once; stop joins | Scheduler |
| `Sys/Job` FiberEvent | flag, list of wait nodes | `signal_all`, `await_one` | pushes race the swap; a fiber is on the list before it has suspended | no node lost or resumed twice | FiberEvent |
| `Sys/Job` FiberMutex | owner, one waiter | `lock`, `unlock` | lost waiters | (nothing it keeps) | |
| `Sys/Job` Driver | timer heap, awaited completions | `add_timer`, `await_iocp`, `poll` | callbacks inside the heap update; time moves between comparisons | each timer fires once; all fire | Driver |
| `Cap/Concurrency` Counter | a word | `add`, `sub`, `wait_zero` | wake-up against sleep | a wait ends without its timeout | Counter |
| `Cap/Memory` Frame, Stack; `Sys/Memory` StateRing | offset, committed pages, marks | `allocate`, `reallocate`, `deallocate`, `reset`, frames and rollback | commit on demand, rollback past dropped marks | live blocks apart; a rollback returns what was there | LinearMemory |
| `Cap/Memory` SmallObject, Pool | shared free list, cache of the owner | `allocate`, `deallocate`, `reallocate`, `reset` | frees of other threads | a block in one place | PoolMemory |
| `Cap/Memory` Tagged, System | budget | the same | failures between load and store | budget exact | TaggedMemory |
| `Cap/Containers` HashMap | slots with tombstones | `insert`, `get`, `remove`, iteration | tombstones in front of a key | a map | HashMapTable |
| `Cap/Containers` Deque, RingBuffer | cells, head, length | pushes and pops | wrap-around at both ends | a sequence | RingContainers |
| `Cap/Containers` Vector, String | block, length, capacity | growth, `swap_remove`, `into_iter`, `push_str` | failures, half-consumed iterators | owned once, freed once | VectorStorage, StringStorage |
| `Sim/Scene` SimWorld | entities, records, rows, components | `spawn_transform`, `fork`, phases | failures between the parts of a spawn | an entity is where it was put | SimWorld |
| `Sys/Resource` VersionedBuffer | three slots, two indices | `write`, `read_ptr`, `commit` | reader against two stores of commit | the reader's slot is untouched until the second commit | VersionedBuffers |
| `Sys/VFS` | mounts | `mount`, `resolve`, `open_read` | shadowed aliases | the first mount answers | VirtualFiles |
| `Sys/RHI` Vulkan | fence, semaphore, swap chain, command buffer | `draw_packet`, `begin_frame`, passes, `present` | any call fails, waits too, and errors are ignored | which failure leads to which misuse of what is in flight | VulkanFrame |
| `Engine/App`, `Sys/RenderGraph` | phase, accumulator, messages | `main`, `execute` | closing, backlog of steps | whole frames, conserved time, ends | AppFrame |
| `Prm` audio, WSI, window, file, threads | handles | the functions that acquire several | failure in the middle | given back once | OsResources |
| `Cap/Algorithms` | slices, tree | sort, search, scan, LBVH | borders, odd levels | against their definitions | Sorting, SpatialIndex |
| `Cap/Math`, `Prm/SIMD` | none | matrices, rays, kernels, lanes | tails, order of operands, NaN | against their definitions | VectorMath, LaneKernels, SimdLanes |
| `Sys/Scripting`, `Sys/IR`, CPU backend, `Derive`, utilities | | | | | |

How they meet: `TaskGraph::dispatch` and the trampolines of its nodes call
`Scheduler::enqueue`, which pushes onto a `ChaseLevDeque` of a worker; the
worker steals or pops the job and runs the trampoline, which calls
`TaskGroup::task_done`, decrements successors and pushes roots for the next
frame; the thread of `TaskRuntime` polls the group and dispatches these roots;
other threads sleep in `TaskGroup::wait`. `MPMCQueue` stands alone.

`PROJECT.json` lists each hazard at its line, with the properties about it.

## Modules

### MPMCQueue, BoundedFifo, MPMCQueueProofs

`MPMCQueue` has one action per load, compare-and-swap, store or payload access
of `enqueue` and `dequeue`; the program counters `ppc`, `cpc` name the place in
the loop, `pt`, `ch` hold the ticket read, `pv`, `cv` the value. `sent` and
`got` record, per ticket, what was accepted and returned. `BoundedFifo` is the
abstract queue: Put, Take (the consumer's turn) and Receive (its copy), because
a consumer copies the payload after its compare-and-swap. `ImplementsFifo` maps
`q` to the tickets from `head` to `tail`. Tickets are natural numbers: the
code's counters are 64 bits wide and are not wrapped here.

### ChaseLevDeque, StealingDeque, ChaseLevDequeProofs

Loads and stores are steps; a store may go through a per-thread store buffer
(`buf`, drained by `Drain`), as x86 does, and a compare-and-swap waits for an
empty buffer. The type takes `&self` everywhere and lets every thread call
everything, so who calls what, and how deep the buffers are, is the environment
`env`: `OwnerPops`, `StealOnly` and `ForeignPush` are the ones considered.
`StealingDeque` is the abstract sequence; while the owner is inside `pop_bottom` the
item at its index still counts as present (`Limit`). The sound environments are
checked in the run `graph`, beside the graph's executions (`MCTaskGraph`).

### TaskGraph, TaskOrder, TaskProofs

`dispatch` (`dpc`, `di`) and, per worker, `job_trampoline` (`wpc`, node `wn`, edge
`wk`, value read `wv`). `dyn_indeg` and `next_roots_count` are plain memory written by
several threads: reads and writes are steps of their own, and where the compiler may
or may not read again, both values are allowed (`RootsCount`). The scheduler's deques
are the bag `jobs`: any idle worker takes any job. `enqueue` pushes onto the deque of
a worker that may be popping (`scheduler.rs:85`), or that another thread is pushing
onto, and then the bag is no longer what was pushed: `clashed` says that this has
happened to some push, and from then on `LoseJob` may put any waiting job out of reach
(`lost`), as `deque_foreign_push` shows it happen, and `RepeatJob` hands a job out
that has already run. The trampoline frees a job's context at its first run, so what a
repeated job does is undefined, and the behaviour ends there (`repeated`). Safety is
stated of all of these behaviours, liveness of those in which no push clashes.
`TaskOrder` is the promise: each node once, after those it depends on. `graph` and
`pool` (the workers) are chosen in the initial state and never change.

### TaskRuntime, TaskProofs

Extends TaskGraph with the runtime thread: `rpc` walks through `runtime_entry`
and `dispatch_next_frame_roots`. `MarkGpuCompleted` is the renderer's call: the
GPU completes only frames that were dispatched. `RequestStop` and `Join` are the
two halves of `stop_and_join`. `Input`, `Sim` and the other graphs its runs use are at
the end of the module.

### TaskGraphInline

The calls that build a graph, in any order, and `dispatch_inline` on the calling
thread: a step for each source the scan queues, for the call of a node, for each
of its edges, and for the end of a node and of the call. Handles are those `add`
returned. It implements TaskOrder too.

### Scheduler, SchedulerProofs

`pc` holds the place of each worker in `worker_main` and of the owner (thread
`Main`) in `enqueue`, `stop` and `join`; `place` counts the deques a worker has
looked into, in the code's order. The deques are `top`, `bot` and cells; each
operation is what it reads and what it writes, two steps, so that a push from
another thread still falls into the owner's pop, as it does in ChaseLevDeque
with all accesses. Jobs can therefore be lost (see `deque_foreign_push`), and the
module promises nothing about jobs: it is about sleeping and stopping. `ev` is
the parkers' events. `start` hands the workers a pointer to a flag and then moves
the struct that holds it; `inPlace` says whether the flag stayed where it was,
and if it did not, the workers' load returns anything. Left out: the failure of
`start` half way, fibers that suspend themselves, and the driver's timers, which
only shorten the sleep.

### TaskGroup, WaitingProofs

`add_tasks`, `task_done` and `wait`, split at each atomic operation and each
call of the event. The event is auto-reset: a wait that it releases clears it.
Callers count a task before they enqueue it, as the job sample does; TaskGraph
shows what happens with the trampoline's order.

### FiberEvent, Counter, Driver, AppFrame, WaitingProofs

`FiberEvent` has one step per load, swap and compare-and-swap of the list;
`taken` is the part that `signal_all` walks. `await_one` only pushes the node and
answers false (`event.rs:33`, `:35`); its caller suspends in a step of its own
(`Suspend`), and in between its node is on the list while it runs. A signaller that
takes the node then switches to a running fiber, which `SwitchToFiber` leaves
undefined: the model lets the fiber go on, to suspend after all, or be over (`early`).
A fiber can be left behind in two ways: it tested the flag before it was set and
pushed after the last swap, or it was resumed before it had suspended.
`NodesAccounted` says that there is no third. That a waiter goes on (`Resumed`) is
promised to fibers that had suspended when the signal was given or when the
signaller took them. `Counter` is
`wait_zero` over the system's `wait_on_address`, which sleeps only while the word
holds what was compared, may wake for no reason, and may time out.

`Driver` keeps the heap of timers as the code does, sifting by the time that
*remains*, which stops at zero; the clock ticks between any two steps. A callback
may add a timer between `swap_remove(0)` and `heap_down(0)`, when the last element
stands at the root: the order of the heap is then lost (`nested`), which the
module allows, and still every timer fires once. `HeapUp` and `HeapDown` are one turn
each of the loops of `heap_up` and `heap_down`, which read the clock once, before
their first turn (`now`), while it goes on.

`AppFrame` is `main`: mounting, window, device, shaders, entities, model, then
the loop with one message, the steps that are due, and one frame. Only *posted*
messages reach the callback that sets `QUIT`; the X of the window sends WM_CLOSE
to the window procedure, which destroys the window, and the loop is told
nothing. `CloseEnds` is about posted ones.

### LinearMemory, PoolMemory, TaggedMemory

`LinearMemory` is the bump allocator in four kinds (frame and stack, with pages
committed on demand and without) and the state ring above the stack. `live`
holds the blocks callers may use; `snaps` what was live when a frame was
committed. `PoolMemory` has one step per load and compare-and-swap of the shared
list. `allocate` takes `&mut self`, so one thread allocates, and the pop is not
open to a head that returns. `reset` is called when nothing is used or cached:
the code leaves the thread cache alone, which would hand out pages that are no
longer committed. `TaggedMemory` is the budget over the system's allocator.

### HashMapTable, RingContainers, VectorStorage, StringStorage, CommandBuffers

One action per call, except that `apply_all` runs each command in a step of its own;
`pushed` and `applied` are each buffer's history. `Dictionary` and `EndedSequence` are
what a map and a double-ended sequence promise; the hash function is any function
(`home`). A table whose free slots are all tombstones refuses every insert, as the
code does. `VectorStorage` keeps for each element who owns it, and which block is
live.

### SimWorld, VersionedBuffers, VirtualFiles, OsResources, EngineProofs

`SimWorld`: a spawn allocates an entity, finds the archetype, pushes the row and
the components, and writes the record; memory may run out at each (`Faults`), and
what was done stays. `known` is what the caller was told, and where it put what it
was given. A frame's commands are applied one per step, and none is after a spawn that
fails. When `generations` cannot grow after `entities` did (`lib.rs:173`, `:174`), the
two vectors differ in length for good, and the newest entity of such a world is never
found by `get_component`; `Whole` is the world to which that has not happened, and the
property promises positions for it alone. `VersionedBuffers`: the
two stores of `commit` are two steps, and a reader may take its pointer between
them. `OsResources`: each function that acquires several things is the ladder of
its calls, with what the branch of each failure gives back. `Clean` are the
functions that give everything back on every path; `Leaky` those that do not,
each a leak of the code: they may lose things, but must still give nothing back
twice. `VkCtxInit` gives back nothing when a later call fails.

### VulkanFrame

One action per call of Vulkan that matters to synchronisation; each may fail, and
`faults` says which did. That includes the waits: the results of `wait_for_fences` and
`reset_fences` (`vk_passes.rs:8`, `:9`, `:95`, `:96`), `device_wait_idle`
(`vk_renderer.rs:200`) and `get_query_pool_results` (`vk_passes.rs:73`) are discarded,
so a wait that fails ends at once, whatever the processor does, and the frame goes on.
The processor runs what was submitted in steps of its own, a depth and a colour pass or
a copy. `misuse` records what the program then does that Vulkan forbids, or that writes
what the processor reads. The pass functions' errors are ignored by the render graph, so
the next pass runs. Once commands are begun while they are executed the outcome is
undefined and the behaviour ends.

`FramesSound` says what each failure can lead to, and what none can. Without a failure, or
with a lost swap chain that can be made again, two things happen and no other:
`draw_packet` writes the vertices while the previous frame's colour pass reads them, and
`present_pixels` fills the staging buffer while the previous copy reads it, as both write
before the fence is awaited. Vertices are written under the depth pass only after the
wait for the query results failed, commands are begun anew while executed only after
waiting for the fence or resetting it failed, and what the processor uses is destroyed
only after the wait for the device failed. A frame that fails between resetting the fence
and submitting hangs the next one.

### Sorting, SpatialIndex, VectorMath, LaneKernels, SimdLanes

Algorithms run step by step (one element of a partition or a sum, one digit of the
radix sort, a halving, a pair of nodes) and are compared with definitions that do not
mention how they work. `walk` is the loop that runs in `quick_sort` and in the sums;
`operand` the weight of the next digit, the key, or the sum so far. The size of the
stack, the base of the digits and the number of values of a word are constants (64
ranges, 256, and 2^32 or 2^64 in the code). Of the scans, the ones over `u64` are
modelled. `Spread` is the loop of `morton3` over the ten bits of a cell. Numbers are
integers, or eighths where rounding is the operation: rounding errors of single
precision are not modelled. NaN is a value of its own where the code compares. Of an
operation on lanes `Answer` gives what each path answers; `LanesMatch` compares both
with what the name says, and `PathsAgree` the instructions with the scalar path. Unit
quaternions of integers are half turns, which have no direction, so nothing is said of
the direction in which `from_trs` turns: it must put the origin at `t` and, for equal
scales, stretch every distance from there by the scale. `SpatialIndex` builds trees
from as many primitives as centres, where the code takes the smaller number. The
operands are constants: columns (`Lens`), lanes (`LaneInputs`), matrices, offsets and
quaternions (`Linear`, `Offsets`, `Units`), boxes and how far they reach (`BoxPairs`,
`Extent`); `Engine.cfg` gives them the tables of `MCEngine`.

### MCTaskGraph, MCWaiting, MCStorage, MCEngine

Small components share a run, and `MCTaskGraph` puts the deque beside the graph in the
same way. A composite declares the variables of all of its members, instantiates each
with its bounds, and its behaviours are those of one member each, chosen by `which` in
the initial state; the others keep a parked state. A property of the composite is the
conjunction of its members' properties, each asked of that member's behaviours.
Nothing is composed in parallel: the components do not share state in the program.
Those that do (task graph, runtime, group, and scheduler, deque) are modelled
together. `StorageProofs` extends `MCStorage`, `WaitingProofs` extends `MCWaiting`,
`EngineProofs` and `OrderingProofs` extend `MCEngine`; they prove each member's part
about that member's instance, for every value of the bounds.

## Runs

| Run | Bounds | What it shows |
|---|---|---|
| `mpmc` | 2 producers, 2 consumers, 2 values, 2 slots, 4 tickets | safety, full and empty, refinement of BoundedFifo, the inductive invariant |
| `deque_foreign_push` | a main thread that pushes, a worker that pops and steals | expected violation |
| `graph` | 1 and 2 workers, all graphs of 3 nodes and up to 3 edges with roots last; 1 to 3 workers, two graphs of 4 nodes and one with triggers; pushes that clash, lost and repeated jobs. Deque: owner and 2 thieves, 2 cells, 3 items; with buffers of 2 stores when nobody pops | order, exact count, refinement of TaskOrder (each node once); every node runs, if no push clashes. Deque: safety, refinement of StealingDeque |
| `graph_natural_order` | 1 worker, nodes 1 -> 2 | expected violation |
| `runtime` | 1 worker, 3 frames, 2 ahead, four graphs with triggers | backpressure, bounds, count, stop |
| `runtime_chain` | 1 worker, Input and Sim | expected violation |
| `scheduler` | 2 workers, 3 jobs of both priorities, one enqueued by a job, one with a qos beyond the last worker | the inductive invariant, no lost wake-up, stop and join return |
| `waiting` | queue: 1 producer, 2 consumers, 3 tickets on 2 slots; group: 2 waiters, 3 tasks; event: 3 fibers; counter: 2 waiters, 2 workers, up to 2 each; driver: 4 timers of 1 or 3 ticks, 3 ticks, one completion; loop: steps of 3 units, turns of 1, 2 or 7, until 14, 3 messages | lists kept, waits sound, and everything that waits is served |
| `storage` | linear: 6 units in pages of 3, 2 frames kept; pools: 2 classes of 2 blocks, 3 threads; budget 5 of sizes 1 to 3; table of 4 slots, 3 keys, every hash function; vector: 4 elements, capacity 0 or 3 to start; rings of 4 cells; strings up to 5 bytes, 2 inside; 3 commands, 2 buffers; graphs of 3 nodes, 3 edges, 4 calls | blocks, elements and nodes accounted for; refinements of Dictionary, EndedSequence and TaskOrder |
| `engine` | world: 3 entities, 2 commands, 5 places to fail; frame: every call may fail, up to three kinds of them in one behaviour; 3 mounts of 4 aliases; 5 versions; 15 functions of the system; kernels of 0 to 15 elements; slices of up to 5 values out of 4 (and NaN), with digits of one bit, words of two, and a stack of one range; trees of up to 5 primitives; lanes with NaN, ties and negative numbers; 20 matrices | the same for the rest, and arithmetic against definitions |
| `lbvh_nodes` | the trees of `engine` | expected violation |
| `paths_agree` | the operations on lanes, with lanes of one and four | expected violation |

Why the bounds are enough: four tickets on two slots take every slot through a
full lap and into the next one, with two threads on each side to race for every
compare-and-swap. Two cells with three items wrap the deque and let the last
item be raced for in both cells. Three nodes with three edges have every shape
that matters to the counts (joins of two and, with four nodes, three, forks,
chains, repeated edges, self loops, cycles beside runnable nodes). Three frames
with a budget of two make the runtime wait for the GPU and go on. Three tasks and
two waiters give a late signal of one round, a reset in the next and a waiter
that loses the signal. Four timers make a heap of three levels, so that a node
with two children and one below is sifted, with a callback that adds. Four slots
allow three keys to collide over tombstones and the probe to wrap. Two blocks per
class and three threads let two frees race each other and a pop, and run out.
Two frames kept by the ring make the third drop a mark. Each misuse of a frame needs at
most two kinds of failing calls, so three leave one to hide it behind; the proof has no
such bound. Kernels up to fifteen
elements take a packet of eight, one of four and three single lanes. Five
primitives have an odd level above a level with a carried node.

Deadlock is checked in `mpmc`, whose threads always have a call to make; the other
runs end when their items, nodes, frames or calls are used up.

Symmetry is used in `mpmc` only, which has no liveness property. In `waiting`,
liveness is asked of one of several interchangeable waiters, and the queue has one
producer: consumers are what can starve.

The type invariants of ChaseLevDeque, TaskGraph, TaskRuntime and TaskGraphInline
document the states; the runs spend their properties on the rest. Those of
MPMCQueue, Scheduler, ChaseLevDeque, TaskGraph, TaskRuntime and of the members of
`storage` and `waiting` that are proved about are lemmas of their proofs.

### Fairness

Threads that can run are scheduled (weak fairness per thread), which is what the
operating system gives. In `waiting` consumers keep calling `dequeue`, as the
consumer of `Cap/Containers/Sample/Smoke` does; no producer is forced to call
`enqueue`. In `graph` a worker takes what the bag holds and has not lost, and what is promised is
promised only if no push ever clashes: the code gives nobody the means to prevent that
(hazard `scheduler.rs:85`), so it is a condition of the property, not of the
specification. In `scheduler` workers and the owner's calls in progress are
scheduled (so is a worker whose stop flag stayed in place; with the flag moved nothing is
promised), the timeout of `park` is not fair, and nobody has to call `enqueue` or
`stop`. For a TaskGroup the 1000 ms of `park` end at some time; no caller is
forced to add tasks or wait. A Counter's wait must end without its timeout, which
is not fair. A Driver is polled on and on, as `worker_main` does, and the clock
advances; for a FiberEvent a signal that was begun is finished. The main loop goes
on turning. In `runtime` neither the GPU nor the owner who calls stop is fair. In
the composites, fairness is stated for each member's own variables.

### Where code and documents disagree

* `deque_foreign_push`: `Scheduler::enqueue` pushes from the calling thread
  (`Sys/Job/API/scheduler.rs:85`); `src/Engine/Docs/并发设计.md:120` gives
  `push_bottom` and `pop_bottom` to the owner. A worker that is inside
  `pop_bottom` overwrites `bottom`, and the job is gone.
* `graph_natural_order`: `dispatch` scans counts that workers decrement
  (`Sys/Task/API/task_graph.rs:177`). With a predecessor added before its
  successor, the natural order of `src/Docs/Rust知识库/迁移.md:209`, the successor
  may run twice. In `graph` the roots are added last, which avoids it.
* `runtime_chain`: the counts are not set up again for the next frame
  (`task_graph.rs:189`), so a root's successors do not run in it, against
  `迁移.md:131`.
* `lbvh_nodes`: `build_lbvh` requires `2n - 1` nodes of its caller
  (`Cap/Algorithms/API/spatial.rs:77`), and `Cap/Algorithms/Sample/Test/main.rs:31`
  and `:34` assert that it builds as many, with four primitives. A level with an odd
  count adds a node for the one carried up: three primitives make six nodes, and an
  array of the required length is overrun (the call panics).
* `paths_agree`: the refinement step of `rsqrt` has its half in the wrong product
  (`Prm/SIMD/Impl/Windows/SIMD.rs:212`, and `:583` for eight lanes), so the instruction
  path answers `2.5 / sqrt(a)` and the scalar path `1 / sqrt(a)`; `Cap/Math/README.md:26`
  and `:103` promise that both agree within an epsilon. All other operations agree, except
  that the four-lane instruction rounds a tie to the even integer and the scalar path away
  from zero; `LanesMatch` takes either.

The passing runs stay inside limits beyond which their properties do not hold, and the
model says so with the same actions: a joined node on two workers can lose a decrement
and never run, and a push that clashes can lose a job (`EventuallyAllRun` asks for a
forest or one worker, and for no clash); the group's count is zero in the middle of a
chain, because `task_done` comes before the successors are counted; a root pushed
while `dispatch_next_frame_roots` runs is erased by its last assignment; a popper with
a store buffer and a thief can take the same item (an environment `[pushers |-> {w},
poppers |-> {w}, thieves |-> {t1}, depth |-> 1]`); a push onto a full ring overwrites
(`MaxInFlight` above `Capacity`). `MPMCQueue` with one slot, which `with_capacity`
accepts, overwrites its value, because the sequence number that publishes a ticket is
the one that frees the slot for the next. `TaggedMemory` with a granule above 1, a
pool below the budget, passes its limit: `allocate` checks the size asked for and
books the size given. A SimWorld whose `generations` once failed to grow does not find
its newest entity again. Behaviour stated in a property as the code's own: unchecked
kernels return `n` and leave the tail; a ray inside a face's plane divides zero by
zero; and what each failed call of Vulkan leads to.

## Proofs

`MPMCQueueProofs` proves, for every number of producers and consumers, every set
of values, every bound on tickets and every capacity that is a power of two and
at least 2: type correctness, `TicketDelivery`, `OneLapWindow`, `SlotExclusive`,
`FullIsJustified`, `EmptyIsJustified` and that the queue implements `BoundedFifo`.
Assumed are the ASSUMEs of `MPMCQueue`; `Capacity >= 2` is a hypothesis of each
theorem because the code does not check it.

The argument: a ticket is *taken* between `head` and `tail` and *free* in the
rest of the lap; `SlotDistinct` shows that the tickets of one lap have distinct
slots, so each slot belongs to one ticket, and `TakenTickets`, `FreeTickets` and
`PastTickets` say what its sequence number is in each case. `ProducerInv` and
`ConsumerInv` tie a thread between its compare-and-swap and its sequence store to
its ticket. None of the safety properties is inductive alone: `SlotExclusive`
needs to know that a compare-and-swap succeeds only on a free or published slot,
which is a statement about sequence numbers, which is preserved only because the
slots have one user. One lemma per action shows `IInv` preserved (the local steps
together), `StepInv` combines them, and the theorems follow from `IInv`. For the
refinement each action has a lemma that says which step of the abstract queue it
is: the compare-and-swap of a producer is Put, that of a consumer is Take, its copy
is Receive, and `IInv` gives what the copy finds in the slot.

`ChaseLevDequeProofs` proves `NothingLost`, that each item is returned at most once,
`PopFalseMeansEmpty` and that the deque implements `StealingDeque`, for any items,
any capacity that is a power of two, one thread that pushes and pops, any number of
thieves and empty store buffers (`Owned`, the hypothesis of each theorem): with
buffers, or a second thread that pushes, the properties are false. What makes them
inductive is that a thread's registers stay true of the ring: the item a thief has
read at `top` is still that cell's item as long as `top` has not moved, because the
owner stays less than a lap ahead, and the owner's reservation in `pop_bottom`
keeps every later thief below it.

`SchedulerProofs` proves `NoLostWakeup` and type correctness for every number of
workers, jobs, children of jobs and pushes, from the ASSUMEs of `Scheduler`. The
property speaks of parked workers only; what makes it inductive is `WakeInv`,
which says the same of every own deque that a worker has searched since it
last loaded the flag (`Searched`). Types need more: a steal and a pop return a
cell read earlier, so `StoreOk` and `SearchOk` keep what a thread has read between
the two halves of an operation, and `Filled` says that cells below any index ever
stored were written. Cells are never emptied, so both survive the steps of other
threads even where a push and a pop collide; `ThreadStep` states this once, and
each action has a lemma about its own thread only.

`TaskProofs` proves `TopologicalOrder`, `AtMostOnce` and that the parallel
execution implements `TaskOrder`, for any number of workers and every graph whose
nodes without predecessors were added last (`RootsLast`); the run
`graph_natural_order` shows what happens to the others. An edge is *pending* until
the worker that ran its source has written the target's count. `CountsInv` says
that a count, and a count that a worker has read and not yet written back, is at
least the number of pending edges: what is written is what was read less one, and
with it one edge stops being pending, so a racing write can only leave the count
too high. A node enqueued at zero therefore has no pending edge (`ReadyInv`), so
its predecessors have returned; and as the edge of whoever decremented was the
last, nobody else enqueues it. `ScanInv` is where `RootsLast` enters: nothing
runs before the scan has passed all nodes that have predecessors. Jobs that clashing
pushes lose only keep nodes from running; a job that runs again ends the behaviour (see
TaskGraph), so nothing is proved of what comes after it.

`TaskProofs` also proves that the counts are exact. `CounterMatches` says that the
group's count is what `dispatch` and the enqueues added less what was done: `Balance`
counts the jobs in the bag, lost or not, those a worker is inside of and those already counted
and not yet enqueued, and `CountedOK` ties the code's counter to it, modulo the
counter's width (`ModStep`). `FrameCounterMatches` is the same for the frames of
the runtime. And it proves `Backpressure` for every graph, pool of workers,
`MaxAhead` and `TargetFrames`. The thread tests its budget on counters read one
after the other, and what makes the answer last is in `PacingInv`: only this
thread raises `frame_idx`, `gpu_done` only grows, so from the test to the end of
the frame one more frame fits. `RootsInBounds` is proved for pools of one worker
(`OneWorkerEach`): the trampoline tests the count and raises it in separate steps,
and with one worker only the reset to zero comes in between. With two workers
both can pass the test for the last slot, so the hypothesis is needed.

`WaitingProofs` proves the three safety properties of `waiting`, and that the count of a
TaskGroup is exact, from the ASSUMEs of the members (`Constants`).

* `GroupWaitSound`, for any number of waiters and any finite set of tasks: it is about
  tasks, the code looks at a number. `CountStep` ties the two by adding and removing one
  task at a time, and a count of zero then says that nobody is alive.
* `ListsKept` of a FiberEvent: `NodesInv` keeps the list and what the signaller holds
  apart, each without repetitions, and together the fibers that have pushed
  themselves, suspended or not yet, and were not resumed; `BeforeInv` adds that who is
  on the way to suspend, or was resumed too early, found the flag unset. The lemmas
  about lists (`OnPush`, `OnTail`, `Joined`) say what each operation leaves on them.
* `ListsKept` of a Driver, for any number of timers, any delays and any clock: `TimersOnce`
  follows the timers through swaps, additions and removals (`SwapKeeps`, `AppendKeeps`,
  `FirstTaken`). `OrderInv` says which pair of parent and child may be out of order at
  each place: the one above the hole while a timer rises (`Rising`), those below it
  while one sinks (`Sinking`), and that the two across the hole are in order (`Across`),
  without which a swap would only move the disorder. The comparisons were made at an
  earlier time (`now`); `RemLater` says that what was ordered then still is, although
  remainders stop at zero. It fails when a callback adds a timer to a heap that is not
  empty (`nested`): then neither form holds, and the property excepts it.
* `AppSound`: `TimeInv` accounts for the step in progress, `FrameInv` lists what the device
  has been asked for beside the passes that are left (`Stages`).

`EngineProofs` proves `EntitiesAreWhereTheyWerePut`, `ResourcesKept`,
`ExternalCallsSound` and `ArithmeticSound` of `engine`, from the ASSUMEs of the members
(`Constants`).

* `EntitiesAreWhereTheyWerePut`, for any entities, commands and positions: `RecordsOK`
  says that an entity that was returned has a record, that nobody else has one, and
  that the row it names holds the entity itself, so no two share a row, and writing
  one position leaves the others alone. `ShapeOK` keeps rows and components in step and
  generations no longer than entities; a failed spawn (`AbandonedOK`) leaves an entity
  without a record, which shifts later indices and no row. Commands refer to entities
  the world has returned (`CommandsOK`), and stay right because those only grow.
* `ResourcesKept`: `FilesInv` says that the first entry with an alias holds the root of
  its first mount, which a later entry cannot precede; it gives the least index that
  `FindAlias` chooses. `SlotsInv` keeps the writer of a versioned buffer one slot ahead
  of the reader, except between the two stores of `commit`; `PinInv` says where a pointer
  that was taken points, before and after one commit. The slot that is written is
  neither of the two.
* `ExternalCallsSound`, frames: `FramesInv` goes through any number of frames with any
  failures, waits included. The fence is what the program knows of the processor
  (`FenceInv`): between its wait and the submission the processor is idle and the fence
  unset, unless a wait or a reset failed, and elsewhere an unset fence means that the
  processor works or that an earlier failure kept the frame from being submitted.
  `FrameHas` says what a frame has at each place (recording commands, an image, a swap
  chain), or which failure took it. `MisuseInv` is then the property: each misuse but
  two comes with the failure that led to it.
* `ExternalCallsSound`, acquiring: for each function, a lemma gives what it `Holds` before
  each of its calls, such that a call gives back only what it finds, and for those that
  clean up, all of it when it fails (`Exact`). `LadderInv` ties what is held in a run of any
  ladder to that sequence.
* `ArithmeticSound`, kernels, for columns of any lengths: `KernelInv` says that what is
  before the place of the next packet holds the scalar operation's result and nothing
  behind it is written, and that the unchecked kernels, which have no loop for the rest,
  stop at the last whole packet.
* `ArithmeticSound`, lanes, for any vectors of four multiples of a half between -125
  and 125, or NaN (`LanesAssumption`; on that grid no product is rounded and no sum
  reaches the number that stands for NaN): one lemma for each operation compares both
  paths with what its name says, except that nothing is said of the instruction path
  of `rsqrt` (run `paths_agree`). The sums that add pairs (`DotIs`, `HSum8Is`) equal
  the ones that add in turn because addition of such values with NaN is associative
  (`ThreeTerms`, `FourTerms`, `EightLanes`).
* `ArithmeticSound`, geometry, for any integer matrices of determinant 1 or -1,
  offsets, unit quaternions and boxes no further than `Extent` from the origin:
  cofactors are the inverse times the determinant (`Adjugate`), a product of matrices
  moves a point as both in turn (`Composition`), quaternion products associate and
  conjugates reverse them (`QuatAssociates`, `ConjOfProduct`), the corner that
  `overlap` chooses is the one furthest along the normal (`Against`), and the
  parameters `ray_aabb` keeps for an axis are those at which the ray is between the
  two faces, with the infinities of a ray parallel to them (`SlabIs`, `NarrowIs`).

`OrderingProofs` proves `OrderingSound` of `engine`, for slices of every length, every
digit base, word size and stack, and any number of primitives at any centres.

* `quick_sort`: pending ranges lie apart, each with a pivot between it and the next
  (`RangesApart`), which bounds how many there can be on a slice of a given length; the
  elements that are not `Together` in one of them are in order (`OrderedElsewhere`), while the
  loop of `partition` has the elements at most the pivot in front of the others
  (`WalkInside`). Every exchange leaves a `Rearranged` slice, so what is sorted is what
  was given. With NaN nothing is claimed of the order.
* `radix_sort`: the elements are in the order of their remainders by the next weight
  (`RadixInv`); a pass orders by the digit and, as it keeps equal digits in place
  (`PassOrders`), by the remainder of the following weight (`DigitAdded`). That each pass
  puts every element in one place is `PositionsAreOnce`. After the last weight the
  remainder is the element.
* `binary_search`: `SearchRange` says that what is before the range is below the key and
  what is behind it is not. The sums: differences of neighbours are the elements,
  modulo the word.
* `build_lbvh`: `Tree` says of the nodes so far that children come before parents, that
  only the nodes of the level and of the one above it lack a parent, that every primitive
  is below one of them, and that a box is the least around its leaves. The leaves below a
  node are given by the recursive equation of `Under`; `Below` says it of any function
  that satisfies the equation, and a node that is added extends that function
  (`GrownBelow`), so no induction is needed. In a build of 1, 2, 4 or 8 primitives the level
  and twice the one above it make a power of two (`LevelsInv`), so no node is
  carried and the array suffices. Codes: a cell no further on each axis has no larger code,
  bit by bit (`SpreadOrder`, `CellOrder`, `MortonOrder`).

`StorageProofs` proves the eight properties of `storage` for every value of its bounds
(`Constants` collects the ASSUMEs of the members). As a behaviour belongs to one
member, each proof is about that member's instance, and the composite follows.

* `MemorySafe`: live blocks of the linear allocators are apart and below the offset,
  the state ring's frames too (`LinType`, `MarksAscend`, `LiveApart`, `SnapsBelow`,
  `SnapsApart`). A rollback needs that marks ascend and that what was live at a
  mark lies below it; both must survive the step that drops the oldest mark.
* `BlocksAccounted`: a pool's block is in one place, and a budget is exact. `PoolInv`
  is `Book` (types, what each call in progress holds, own size classes, keys and
  frees once) and `Listed`: the shared list and the owner's are laid out from
  their heads, without repetition, and what the owner read of the head stays on the
  list, because only the owner takes from it. `BudgetInv` adds up bytes per region.
  It is proved where the budget counts what was asked (`AsAsked`): with a granule
  above 1 the code books more than it checked, and the statement is false.
* `ElementsKept`: `VecInv` and `StrInv` follow each element, and each block, through
  growth, `swap_remove`, half-consumed iterators and the failures of each.
* `AppliedOnceInOrder`: `CmdInv` says of each buffer that what was executed of it, and
  what `apply_all` has yet to execute of it, is what was pushed, in that order; a buffer
  added twice is empty the second time.
* `ImplementsSequence`: deque and ring buffer are a bounded sequence. The lemmas are
  about indices modulo the capacity: one place back and one forward of a window, and
  the windows of two lengths.
* `ImplementsDictionary`: the hash map is a finite map. `TableInv` says that a key has
  one entry and that a probe for it reaches that entry before an empty slot
  (`KeysReached`): `remove` may therefore leave a tombstone and never an empty slot, and
  `insert` may take the first tombstone it met only once it knows that the key is not
  further on. The length is the number of keys, which keeps the table at most half full.
* `InlineSound` and `ImplementsOrder` of `dispatch_inline`: a node's count is the
  number of its edges from nodes that have not relaxed them yet (`GraphInv`), the queue
  holds nodes that are ready, each once, and so it never needs more than as many
  places as there are nodes (`QueueFits`).

Only model-checked, and why:

* Liveness, in every module (out of the prover's reach).
* `BuiltIsNeeded`, `PathsAgree` and the other expected violations, which are false.

## Plan

Done: all modules above; the proofs of every safety property and action property that
a passing run checks. Left, in this order:

1. A second `dispatch` of a graph that grew, and `start` that fails half way.
2. Two workers that poll one Driver, once the code gives it a lock.

## Not modelled

* `FiberMutex`: it has no caller, and nothing it could promise holds: its list keeps
  one waiter, a resumed waiter does not own the mutex, and `resume_fiber` from a fiber
  abandons the resumer.
* All workers poll one Driver without a lock (`scheduler.rs:42`). Two threads inside a
  plain vector's `swap_remove` are undefined behaviour; there is no bounded set of
  outcomes to choose from.
* Scripting and IR: text. `frame.lua` is loaded into another Lua than the one that
  calls `on_update`, so scripts change nothing in the loop.
* The CPU rasteriser and its present: pixels. `Engine/Renderer` calls `Device::new`
  with arguments it does not take; the generic backend's pool names a memory ordering
  that does not exist. Neither compiles.
* Raw input, sockets, topology, time, dynamic libraries, and the single-instruction
  part of `Prm/SIMD`: one call each.
* Rounding of single precision (including the drift of the frame loop's accumulator),
  hashing, text utilities, generated code (`Derive`).
